---- MODULE Spec2Model ----
(***************************************************************************)
(* Model of the job registry, the job runner and the request handlers of   *)
(* src/openalgo-restart-api.py (class RestartHandler).                     *)
(*                                                                         *)
(* Threads: the server is a plain socketserver.TCPServer (line 1954), so   *)
(* all HTTP requests are served one after the other by ONE request thread; *)
(* every accepted health-check/update request spawns one worker thread     *)
(* (_run_script_job).  JOBS and JOBS_LOCK are class attributes shared by   *)
(* all of them.                                                            *)
(*                                                                         *)
(* Python values: None is <<>>, a present value x is <<x>>; text is a      *)
(* sequence of one-character strings; a dict is the sequence of its        *)
(* values in insertion order.                                              *)
(***************************************************************************)
EXTENDS Integers, Sequences, FiniteSets, TLC

(***************************************************************************)
(* Bounds of the model.                                                    *)
(***************************************************************************)
\* JOB_LIMIT is 50 in the source (line 26); the model keeps the code of the
\* prune and scales the capacity so that an overflow is reached.
JOB_LIMIT == 1
\* number of job-creation requests the request thread accepts
MaxJobs == 2
\* uuid4().hex[:12] ranges over 16^12 values; the model draws from 1..NumIds
NumIds == 2
\* the clock readings range over 0..MaxClock
MaxClock == 1

None == <<>>
Some(x) == <<x>>

JobIds == 1..NumIds
\* one worker thread per accepted request; the runs that reuse the id of an
\* evicted job accept one request more than MaxJobs
Workers == 1..(MaxJobs + 1)

(***************************************************************************)
(* Text.                                                                   *)
(***************************************************************************)
Str_openalgo == <<"o", "p", "e", "n", "a", "l", "g", "o">>
Str_openalgo7 == Str_openalgo \o <<"7">>
Str_padded == <<" ">> \o Str_openalgo7 \o <<" ">>
Str_passwd == <<".", ".", "/", "e", "t", "c", "/", "p", "a", "s", "s", "w", "d">>
Str_inject == Str_openalgo7 \o <<";", "x">>

Digits == {"0", "1", "2", "3", "4", "5", "6", "7", "8", "9"}
Whitespace == {" ", "\n", "\t"}

\* str.strip(): drop leading and trailing whitespace
RECURSIVE LStrip(_)
LStrip(s) == IF s # <<>> /\ Head(s) \in Whitespace THEN LStrip(Tail(s)) ELSE s

RECURSIVE RStrip(_)
RStrip(s) ==
    IF s # <<>> /\ s[Len(s)] \in Whitespace
    THEN RStrip(SubSeq(s, 1, Len(s) - 1)) ELSE s

Strip(s) == RStrip(LStrip(s))

\* str.startswith
StartsWith(s, p) == Len(s) >= Len(p) /\ SubSeq(s, 1, Len(p)) = p

\* characters outside 0-9 that str.isdigit() takes for digits; "SUP2" stands
\* for U+00B2, the superscript two, which a Latin-1 header can carry
OtherDigits == {"SUP2"}

\* str.isdigit(): non-empty and every character a digit
IsDigit(s) == s # <<>> /\ \A i \in 1..Len(s) : s[i] \in Digits \cup OtherDigits

SanitizeInstance_AnySuffix(instance) ==
    IF instance = None \/ instance[1] = <<>>
    THEN None
    ELSE LET t == Strip(instance[1]) IN
         IF StartsWith(t, Str_openalgo) THEN Some(t) ELSE None

\* _sanitize_instance: the argument is None or Some(text); so is the result
SanitizeInstance(instance) ==
    IF instance = None \/ instance[1] = <<>>
    THEN None
    ELSE LET t == Strip(instance[1]) IN
         IF StartsWith(t, Str_openalgo) /\ IsDigit(SubSeq(t, 9, Len(t)))
         THEN Some(t) ELSE None


(***************************************************************************)
(* Output of the external command.                                         *)
(***************************************************************************)
\* The cap on the captured output is 200000 characters in the source
\* (lines 119-120); the model scales it.
OUTPUT_CAP == 2

TruncationMarker ==
    <<"\n", ".", ".", ".", "\n", "(", "O", "u", "t", "p", "u", "t", " ",
      "t", "r", "u", "n", "c", "a", "t", "e", "d", ")">>

\* character classes of the regular expression \x1B\[[0-?]*[ -/]*[@-~]
CsiParam == Digits \cup {":", ";", "<", "=", ">", "?"}
CsiInter == {" ", "!", "#", "$", "%", "&", "(", ")", "*", "+", ",", "-", ".", "/"}
CsiFinal == {"@", "[", "]", "^", "_", "{", "|", "}", "~",
             "a", "b", "c", "d", "e", "m", "x", "A", "H", "J", "K"}

RECURSIVE SkipClass(_, _, _)
SkipClass(s, i, class) ==
    IF i <= Len(s) /\ s[i] \in class THEN SkipClass(s, i + 1, class) ELSE i

\* index of the last character of the escape sequence that starts at i, or 0
CsiEnd(s, i) ==
    IF i + 1 <= Len(s) /\ s[i] = "ESC" /\ s[i + 1] = "["
    THEN LET j == SkipClass(s, SkipClass(s, i + 2, CsiParam), CsiInter) IN
         IF j <= Len(s) /\ s[j] \in CsiFinal THEN j ELSE 0
    ELSE 0

RECURSIVE StripFrom(_, _)
StripFrom(s, i) ==
    IF i > Len(s) THEN <<>>
    ELSE LET e == CsiEnd(s, i) IN
         IF e > 0 THEN StripFrom(s, e + 1)
         ELSE <<s[i]>> \o StripFrom(s, i + 1)

\* _strip_ansi
StripAnsi(text) == IF text = <<>> THEN text ELSE StripFrom(text, 1)

\* (result.stdout or "") + ("\n" + result.stderr if result.stderr else "")
Combine(stdout, stderr) ==
    stdout \o (IF stderr # <<>> THEN <<"\n">> \o stderr ELSE <<>>)

\* lines 119-120: truncate to the cap and append the marker
Truncate(output) ==
    IF Len(output) > OUTPUT_CAP
    THEN SubSeq(output, 1, OUTPUT_CAP) \o TruncationMarker
    ELSE output

(***************************************************************************)
(* The job registry: JOBS is a dict keyed by job id.                       *)
(***************************************************************************)
Terminal == {"success", "error", "timeout"}

HasJob(jobs, id) == \E i \in 1..Len(jobs) : jobs[i].id = id

IndexOf(jobs, id) == CHOOSE i \in 1..Len(jobs) : jobs[i].id = id

\* JOBS.get(job_id)
LookupJob(jobs, id) == IF HasJob(jobs, id) THEN Some(jobs[IndexOf(jobs, id)]) ELSE None

\* _create_job without the assignment JOBS[job_id] = job
StoreJob_NotStored(jobs, job) == jobs

\* JOBS[job_id] = job: a new key is appended, an existing key keeps its
\* position and gets the new value
StoreJob(jobs, job) ==
    IF HasJob(jobs, job.id)
    THEN [jobs EXCEPT ![IndexOf(jobs, job.id)] = job]
    ELSE Append(jobs, job)

\* the sort with reverse=True: newest first
SortRank_Newest(jobs, i) ==
    Cardinality({j \in 1..Len(jobs) :
        \/ jobs[j].created_ts > jobs[i].created_ts
        \/ jobs[j].created_ts = jobs[i].created_ts /\ j < i})

\* position (from 0) of entry i in sorted(JOBS.items(), key=created_ts);
\* sorted() is stable, so equal keys keep the dict order
SortRank(jobs, i) ==
    Cardinality({j \in 1..Len(jobs) :
        \/ jobs[j].created_ts < jobs[i].created_ts
        \/ jobs[j].created_ts = jobs[i].created_ts /\ j < i})

\* a prune that has no early return and keeps JOB_LIMIT - 1 entries
Evicted_BelowLimit(jobs) ==
    {i \in 1..Len(jobs) : SortRank(jobs, i) < Len(jobs) - (JOB_LIMIT - 1)}

\* ordered[:-JOB_LIMIT]: the indices of the entries that are popped
Evicted(jobs) ==
    IF Len(jobs) <= JOB_LIMIT THEN {}
    ELSE {i \in 1..Len(jobs) : SortRank(jobs, i) < Len(jobs) - JOB_LIMIT}

RECURSIVE Without(_, _, _)
Without(jobs, drop, i) ==
    IF i > Len(jobs) THEN <<>>
    ELSE (IF i \in drop THEN <<>> ELSE <<jobs[i]>>) \o Without(jobs, drop, i + 1)

\* the prune with the slice ordered[:-(JOB_LIMIT + 1)]
PruneJobsLocked_KeepsOneMore(jobs) ==
    Without(jobs, {i \in 1..Len(jobs) : SortRank(jobs, i) < Len(jobs) - (JOB_LIMIT + 1)}, 1)

\* _prune_jobs_locked
PruneJobsLocked(jobs) == Without(jobs, Evicted(jobs), 1)

\* the record built by _create_job (lines 77-89)
NewJob(id, action, params, t) ==
    [id |-> id, action |-> action, params |-> params, status |-> "queued",
     created_at |-> t, created_ts |-> t,
     started_at |-> None, finished_at |-> None, exit_code |-> None,
     output |-> <<>>, error |-> None]

\* job.update(updates): the fields are assigned in the order of the call
RECURSIVE ApplyUpdates(_, _)
ApplyUpdates(job, updates) ==
    IF updates = <<>> THEN job
    ELSE ApplyUpdates([job EXCEPT ![updates[1][1]] = updates[1][2]], Tail(updates))


(***************************************************************************)
(* Requests.                                                               *)
(***************************************************************************)
Str_all == <<"a", "l", "l">>
Str_system == <<"s", "y", "s", "t", "e", "m">>
Str_instance == <<"i", "n", "s", "t", "a", "n", "c", "e">>
Str_updateall == <<"u", "p", "d", "a", "t", "e", "-", "a", "l", "l">>
Str_bogus == <<"f", "l", "e", "e", "t">>
Str_System == <<" ", "S", "y", "s", "t", "e", "m">>

\* str.lower() on the characters the requests of the model contain
LowerChar(c) == IF c = "S" THEN "s" ELSE c

Lower(s) == [i \in 1..Len(s) |-> LowerChar(s[i])]

\* (data.get("scope") or "all").strip().lower()
NormScope(scope) ==
    Lower(Strip(IF scope = None \/ scope[1] = <<>> THEN Str_all ELSE scope[1]))

\* handle_update with the scope check of handle_health_check
AllowedScopes_Same(action) == {Str_all, Str_system, Str_instance}

\* the scopes each action allows (lines 879 and 910)
AllowedScopes(action) ==
    IF action = "health-check"
    THEN {Str_all, Str_system, Str_instance}
    ELSE {Str_all, Str_instance}

\* timeout passed to _run_script_job (lines 897 and 928)
JobTimeout(action) == IF action = "health-check" THEN 300 ELSE 1800

\* the argument of the script (lines 894 and 925): [..] or [instance]
ScriptArg(action, scope, instance) ==
    IF action = "health-check"
    THEN (IF scope = Str_all THEN Some(Str_all)
          ELSE IF scope = Str_system THEN Some(Str_system) ELSE instance)
    ELSE (IF scope = Str_all THEN Some(Str_updateall) ELSE instance)

\* the handler with args = [data.get("instance")]: the name is checked and
\* the text of the request is what goes to the script
Validate_RawInstance(action, body, script) ==
    LET scope == NormScope(body.scope)
        instance == IF scope = Str_instance
                    THEN SanitizeInstance(body.instance) ELSE body.instance
    IN  IF scope \notin AllowedScopes(action)
        THEN [ok |-> FALSE, code |-> 400, error |-> "Invalid scope", looked |-> FALSE]
        ELSE IF scope = Str_instance /\ instance = None
        THEN [ok |-> FALSE, code |-> 400, error |-> "Invalid or missing instance",
              looked |-> FALSE]
        ELSE IF ~script
        THEN [ok |-> FALSE, code |-> 500, error |-> "script not found", looked |-> TRUE]
        ELSE [ok |-> TRUE, looked |-> TRUE,
              params |-> [scope |-> scope, instance |-> instance],
              arg |-> ScriptArg(action, scope, body.instance)]

\* handle_health_check / handle_update up to the call of _create_job:
\* what the handler decides for a request body and a script that is or is
\* not found.  looked tells whether _find_script was called.
Validate(action, body, script) ==
    LET scope == NormScope(body.scope)
        instance == IF scope = Str_instance
                    THEN SanitizeInstance(body.instance) ELSE body.instance
    IN  IF scope \notin AllowedScopes(action)
        THEN [ok |-> FALSE, code |-> 400, error |-> "Invalid scope", looked |-> FALSE]
        ELSE IF scope = Str_instance /\ instance = None
        THEN [ok |-> FALSE, code |-> 400, error |-> "Invalid or missing instance",
              looked |-> FALSE]
        ELSE IF ~script
        THEN [ok |-> FALSE, code |-> 500, error |-> "script not found", looked |-> TRUE]
        ELSE [ok |-> TRUE, looked |-> TRUE,
              params |-> [scope |-> scope, instance |-> instance],
              arg |-> ScriptArg(action, scope, instance)]

Actions == {"health-check", "update"}

\* request bodies: every combination of a scope and an instance value
AllBodies ==
    [scope : {None, Some(Str_all), Some(Str_System), Some(Str_instance), Some(Str_bogus)},
     instance : {None, Some(<<>>), Some(Str_openalgo7), Some(Str_padded),
                 Some(Str_openalgo), Some(Str_passwd), Some(Str_inject)}]

\* every request: an action and a body
AllRequests == [action : Actions, body : AllBodies]

\* the requests of the runs that exercise the registry: one that is
\* accepted and one of each kind of rejection
FewRequests ==
    {[action |-> "health-check",
      body |-> [scope |-> Some(Str_instance), instance |-> Some(Str_padded)]],
     [action |-> "health-check",
      body |-> [scope |-> Some(Str_instance), instance |-> Some(Str_passwd)]],
     [action |-> "update",
      body |-> [scope |-> Some(Str_System), instance |-> None]]}

(***************************************************************************)
(* Requests that name an instance.                                         *)
(***************************************************************************)
\* the values a client can put where an instance name is expected
AllNames ==
    {None, Some(<<>>), Some(Str_openalgo7), Some(Str_padded),
     Some(Str_openalgo), Some(Str_passwd), Some(Str_inject)}

\* _resolve_instance_from_host: link is the basename of the target of the
\* symlink for the Host header, None when the header is empty or malformed
\* or when there is no such symlink
ResolveInstanceFromHost(link) == SanitizeInstance(link)

ResolveMonitorInstance_QueryFirst(header, query, link) ==
    IF SanitizeInstance(query) # None THEN SanitizeInstance(query)
    ELSE IF SanitizeInstance(header) # None THEN SanitizeInstance(header)
    ELSE ResolveInstanceFromHost(link)

\* _resolve_monitor_instance: header, then query parameter, then host
ResolveMonitorInstance(header, query, link) ==
    IF SanitizeInstance(header) # None THEN SanitizeInstance(header)
    ELSE IF SanitizeInstance(query) # None THEN SanitizeInstance(query)
    ELSE ResolveInstanceFromHost(link)

\* do_GET / do_POST: the paths whose handler gets the instance from
\* _require_monitor_instance
MonitorEndpoints ==
    {"/monitor/api/restart", "/monitor/api/stop", "/monitor/api/start",
     "/monitor/api/clear-logs", "/monitor/api/invalidate-session",
     "/monitor/api/health", "/monitor/api/status", "/monitor/api/logs"}

\* do_GET / do_POST: the paths whose handler gets data.get('instance', '')
\* or the rest of the path
DirectEndpoints ==
    {"/api/restart-instance", "/api/stop-instance", "/api/start-instance",
     "/api/invalidate-session", "/api/logs/", "/api/broker-status/"}

AllMonitorRequests ==
    [endpoint : MonitorEndpoints, header : AllNames, query : AllNames, link : AllNames]

AllDirectRequests == [endpoint : DirectEndpoints, instance : AllNames]

FewMonitorRequests ==
    {[endpoint |-> "/monitor/api/restart", header |-> None,
      query |-> Some(Str_passwd), link |-> None]}

FewDirectRequests ==
    {[endpoint |-> "/api/stop-instance", instance |-> None]}

(***************************************************************************)
(* What subprocess.run does with the command.                              *)
(***************************************************************************)
Txt_plain == <<"o", "k">>
Txt_colour == <<"ESC", "[", "3", "1", "m", "x">>
Txt_long == <<"a", "b", "c">>

\* CompletedProcess: text mode, stdout and stderr are str
\* TimeoutExpired: on POSIX the captured output is None when nothing was
\*   read and bytes otherwise, also in text mode
\* raised: any other exception of subprocess.run (OSError, ...)
AllOutcomes ==
    {[kind |-> "completed", returncode |-> 0, stdout |-> Txt_plain, stderr |-> <<>>],
     [kind |-> "completed", returncode |-> 1, stdout |-> Txt_colour, stderr |-> Txt_plain],
     [kind |-> "completed", returncode |-> 0, stdout |-> Txt_long, stderr |-> <<>>],
     [kind |-> "timeout", returncode |-> 0, stdout |-> <<>>, stderr |-> <<>>],
     [kind |-> "timeout", returncode |-> 0, stdout |-> Txt_plain, stderr |-> <<>>],
     [kind |-> "timeout", returncode |-> 0, stdout |-> <<>>, stderr |-> Txt_plain],
     [kind |-> "raised", returncode |-> 0, stdout |-> <<>>, stderr |-> <<>>]}

\* the outcomes of the runs that exercise the registry
FewOutcomes ==
    {[kind |-> "completed", returncode |-> 0, stdout |-> Txt_plain, stderr |-> <<>>],
     [kind |-> "timeout", returncode |-> 0, stdout |-> Txt_plain, stderr |-> <<>>]}

\* the handler of TimeoutExpired (line 129) concatenates e.stdout and
\* e.stderr with str: with any captured bytes the + raises TypeError inside
\* the handler, which no except clause of _run_script_job catches
TimeoutHandlerRaises(o) == o.stdout # <<>> \/ o.stderr # <<>>

\* lines 121-126 with status="success" whatever the returncode
CompletedUpdates_IgnoresCode(o) ==
    <<<<"status", "success">>,
      <<"exit_code", Some(o.returncode)>>,
      <<"output", Strip(Truncate(StripAnsi(Combine(o.stdout, o.stderr))))>>>>

\* lines 117-126: the keyword arguments of _update_job after the command
\* ran to completion, in call order
CompletedUpdates(o) ==
    <<<<"status", IF o.returncode = 0 THEN "success" ELSE "error">>,
      <<"exit_code", Some(o.returncode)>>,
      <<"output", Strip(Truncate(StripAnsi(Combine(o.stdout, o.stderr))))>>>>

\* lines 129-137: after TimeoutExpired, when the handler gets that far; the
\* output is not truncated on this path
TimeoutUpdates(o) ==
    <<<<"status", "timeout">>,
      <<"exit_code", None>>,
      <<"output", Strip(StripAnsi(Combine(o.stdout, o.stderr)))>>,
      <<"error", Some("Command timed out")>>>>

\* lines 140-145 without error=str(e)
RaisedUpdates_NoMessage(o) ==
    <<<<"status", "error">>,
      <<"exit_code", None>>>>

\* lines 140-145: after any other exception; error=str(e)
RaisedUpdates(o) ==
    <<<<"status", "error">>,
      <<"exit_code", None>>,
      <<"error", Some("OSError")>>>>

\* the keyword arguments of the terminal _update_job call, in call order;
\* finished_at=self._now_iso(), the last one, is added by UpdateJobLock
TerminalUpdates(o) ==
    IF o.kind = "completed" THEN CompletedUpdates(o)
    ELSE IF o.kind = "timeout" THEN TimeoutUpdates(o)
    ELSE RaisedUpdates(o)


(***************************************************************************)
(* State.                                                                  *)
(***************************************************************************)
VARIABLES
    JOBS,       \* the registry: job records in dict order
    JOBS_LOCK,  \* the thread that holds the lock, or Free
    clock,      \* the last reading of the wall clock
    req,        \* the request thread: where it is and its locals
    resp,       \* the last response the request thread sent
    worker,     \* the worker threads, one per accepted request
    issued,     \* history: the job ids _create_job returned, in order
    scenario,   \* the kind of run: which requests the clients send
    result,     \* the last call of one of the functions below and what it gave
    db_dir      \* the databases in the db directory of the instance

vars == <<JOBS, JOBS_LOCK, clock, req, resp, worker, issued, scenario, result, db_dir>>

\* "registry": up to MaxJobs jobs, few different requests and outcomes;
\* "requests": one job, every job-creation request and every outcome;
\* "instances": one job, every request that names an instance in its body
\* or in its path;
\* "monitor": no job, every request to an endpoint of the monitor;
\* "functions": no request, the functions of the handler called on their own;
\* "churn": as "registry" with one job more, so that a job is created after
\* another one was evicted
Requests == IF scenario = "requests" THEN AllRequests ELSE FewRequests

Outcomes == IF scenario = "requests" THEN AllOutcomes ELSE FewOutcomes

MonitorRequests == IF scenario = "monitor" THEN AllMonitorRequests ELSE FewMonitorRequests

DirectRequests == IF scenario = "instances" THEN AllDirectRequests ELSE FewDirectRequests

JobBudget ==
    IF scenario = "registry" THEN MaxJobs
    ELSE IF scenario = "churn" THEN MaxJobs + 1 ELSE 1

Free == <<"free">>
ReqThread == <<"request">>
WorkerThread(w) == <<"worker", w>>

\* a reading of the clock: not before the last one
Readings == {t \in clock..(clock + 1) : t <= MaxClock}

\* job ids are only compared for equality, so of the ids that were never
\* drawn one stands for all: uuid4 draws an id drawn before or this one
Drawn == {issued[i] : i \in 1..Len(issued)}

DrawableIds ==
    Drawn \cup (IF JobIds \subseteq Drawn THEN {}
                ELSE {CHOOSE id \in JobIds \ Drawn : \A other \in JobIds \ Drawn : id <= other})

IdleReq == [pc |-> "idle", job |-> None, arg |-> None, timeout |-> 0,
            poll_id |-> 0, snap |-> None]

\* missed: a call of _update_job of this thread returned None;
\* runs: the number of calls of subprocess.run this thread made;
\* outcome: how the last of them ended, if there was one
Unborn == [pc |-> "unborn", job_id |-> 0, arg |-> None, timeout |-> 0,
           updates |-> <<>>, stamp |-> "", found |-> None, after |-> "",
           missed |-> FALSE, runs |-> 0, outcome |-> None]

\* a thread that ended has no locals left; what it did with the command
\* stays on record
Ended(me, pc) == [Unborn EXCEPT !.pc = pc, !.runs = me.runs, !.outcome = me.outcome]

\* used: the instance name the handler put into a file path, a shell
\* command or a database path while it served the request
\* given: the candidates a monitor request gave for the instance (header,
\* query parameter, link of the host)
NoResp == [code |-> 0, kind |-> "none", job_id |-> 0, job |-> None, looked |-> FALSE,
           used |-> None, given |-> <<>>]

\* the .env file before the instance is configured: no such file
NoEnvFile == [exists |-> FALSE, readable |-> FALSE, lines |-> <<>>]

\* fn: the function that was called; arg: its arguments; raised: it ended
\* with an exception; value: what it returned otherwise; prior: what the call
\* before it returned, where two calls are compared
NoResult == [fn |-> "", arg |-> <<>>, raised |-> FALSE, value |-> <<>>, prior |-> None]

\* auth: the files that have the auth table, in the order os.scandir lists
\* them, each with its name and the first row of the table;
\* master: the rows of the table master_contract_status of the file that
\* has it, None when no file has it
NoDbDir == [auth |-> <<>>, master |-> None]

InitWith(sc) ==
    /\ JOBS = <<>>
    /\ JOBS_LOCK = Free
    /\ clock = 0
    /\ req = IdleReq
    /\ resp = NoResp
    /\ worker = [w \in Workers |-> Unborn]
    /\ issued = <<>>
    /\ scenario = sc
    /\ result = NoResult
    /\ db_dir = NoDbDir

Init == InitWith("registry")

InitRequests == InitWith("requests")

InitInstances == InitWith("instances")

InitChurn == InitWith("churn")

InitMonitor == InitWith("monitor")

(***************************************************************************)
(* The request thread: job creation.                                       *)
(***************************************************************************)
\* handle_health_check / handle_update, lines 876-892 / 907-923: a request
\* that is rejected is answered at once
RejectRequest(action, body, script) ==
    LET v == Validate(action, body, script) IN
    /\ req.pc = "idle"
    /\ ~v.ok
    /\ resp' = [NoResp EXCEPT !.code = v.code, !.kind = v.error, !.looked = v.looked]
    /\ req' = [IdleReq EXCEPT !.pc = "sent"]
    /\ UNCHANGED <<JOBS, JOBS_LOCK, clock, worker, issued, scenario, result, db_dir>>

\* lines 894-895 and _create_job lines 76-91: the request is accepted, the
\* job id is drawn, the record is built, the lock is taken and the record
\* is stored
CreateJobInsert(action, body, id, t) ==
    LET v == Validate(action, body, TRUE)
        job == NewJob(id, action, v.params, t)
    IN  /\ req.pc = "idle"
        /\ Len(issued) < JobBudget
        /\ v.ok
        /\ id \in DrawableIds
        /\ t \in Readings
        /\ clock' = t
        /\ JOBS_LOCK = Free
        /\ JOBS_LOCK' = ReqThread
        /\ JOBS' = StoreJob(JOBS, job)
        /\ req' = [req EXCEPT !.pc = "prune", !.job = Some(job), !.arg = v.arg,
                              !.timeout = JobTimeout(action)]
        /\ UNCHANGED <<resp, worker, issued, scenario, result, db_dir>>

\* _create_job lines 92-93: prune, release the lock, return the id
CreateJobPrune ==
    /\ req.pc = "prune"
    /\ JOBS' = PruneJobsLocked(JOBS)
    /\ JOBS_LOCK' = Free
    /\ issued' = Append(issued, req.job[1].id)
    /\ req' = [req EXCEPT !.pc = "spawn"]
    /\ UNCHANGED <<clock, resp, worker, scenario, result, db_dir>>

\* lines 896-897 / 927-928: Thread(target=_run_script_job, ...).start();
\* the thread begins at line 109 with the call
\* _update_job(job_id, status="running", started_at=self._now_iso())
StartThread ==
    /\ req.pc = "spawn"
    /\ worker' = [worker EXCEPT ![Len(issued)] =
                    [Unborn EXCEPT !.pc = "update",
                                   !.job_id = req.job[1].id,
                                   !.arg = req.arg,
                                   !.timeout = req.timeout,
                                   !.updates = <<<<"status", "running">>>>,
                                   !.stamp = "started_at",
                                   !.after = "exec"]]
    /\ req' = [req EXCEPT !.pc = "respond"]
    /\ UNCHANGED <<JOBS, JOBS_LOCK, clock, resp, issued, scenario, result, db_dir>>

\* the handler with a join of the thread before send_json
MayRespond_AfterJoin == worker[Len(issued)].pc \in {"done", "crashed"}

\* lines 897-898 / 928-929: start() returns at once and the handler goes on
\* to send_json; it never joins the thread
MayRespond == TRUE

\* lines 898-903 / 929-934: the response {"status": "queued", "job_id": ...}
SendQueued ==
    /\ req.pc = "respond"
    /\ MayRespond
    /\ resp' = [NoResp EXCEPT !.code = 200, !.kind = "queued",
                              !.job_id = req.job[1].id, !.looked = TRUE,
                              !.used = IF req.job[1].params.scope = Str_instance
                                       THEN req.job[1].params.instance ELSE None]
    /\ req' = [IdleReq EXCEPT !.pc = "sent"]
    /\ UNCHANGED <<JOBS, JOBS_LOCK, clock, worker, issued, scenario, result, db_dir>>

(***************************************************************************)
(* The request thread: job status.                                         *)
(***************************************************************************)
\* _get_job without "with self.JOBS_LOCK"
GetJobMayEnter_NoLock == TRUE

\* _get_job: may the caller enter "with self.JOBS_LOCK"
GetJobMayEnter == JOBS_LOCK = Free

\* handle_job_status -> _get_job lines 104-106: take the lock, copy the record
GetJobLocked(id) ==
    /\ req.pc = "idle"
    /\ id \in DrawableIds
    /\ GetJobMayEnter
    /\ JOBS_LOCK' = ReqThread
    /\ req' = [req EXCEPT !.pc = "polled", !.poll_id = id, !.snap = LookupJob(JOBS, id)]
    /\ UNCHANGED <<JOBS, clock, resp, worker, issued, scenario, result, db_dir>>

\* _get_job returns and leaves "with self.JOBS_LOCK": the lock is released
GetJobReturn ==
    /\ req.pc = "polled"
    /\ JOBS_LOCK' = Free
    /\ req' = [req EXCEPT !.pc = "reply"]
    /\ UNCHANGED <<JOBS, clock, resp, worker, issued, scenario, result, db_dir>>

\* what handle_job_status holds when _get_job returns job itself: the
\* record of the registry, with every update made since
ReturnedJob_LiveReference(snap, jobs, id) ==
    IF HasJob(jobs, id) THEN LookupJob(jobs, id) ELSE snap

\* what handle_job_status holds (line 868): _get_job returned dict(job), a
\* copy taken under the lock, which later updates of the record do not reach
ReturnedJob(snap, jobs, id) == snap

\* handle_job_status lines 869-872: send the job or 404
SendJobStatus ==
    /\ req.pc = "reply"
    /\ resp' = IF req.snap = None
               THEN [NoResp EXCEPT !.code = 404, !.kind = "Job not found",
                                   !.job_id = req.poll_id]
               ELSE [NoResp EXCEPT !.code = 200, !.kind = "job",
                                   !.job_id = req.poll_id,
                                   !.job = ReturnedJob(req.snap, JOBS, req.poll_id)]
    /\ req' = [IdleReq EXCEPT !.pc = "sent"]
    /\ UNCHANGED <<JOBS, JOBS_LOCK, clock, worker, issued, scenario, result, db_dir>>

(***************************************************************************)
(* The request thread: requests that name an instance.                     *)
(***************************************************************************)
MonitorInstanceRequest_HandlerRunsAnyway(r) ==
    LET instance == ResolveMonitorInstance(r.header, r.query, r.link) IN
    /\ req.pc = "idle"
    /\ resp' = IF instance = None
               THEN [NoResp EXCEPT !.code = 400, !.kind = "Instance not specified",
                                   !.used = Some(<<"N", "o", "n", "e">>),
                                   !.given = <<r.header, r.query, r.link>>]
               ELSE [NoResp EXCEPT !.code = 200, !.kind = r.endpoint, !.used = instance,
                                   !.given = <<r.header, r.query, r.link>>]
    /\ req' = [IdleReq EXCEPT !.pc = "sent"]
    /\ UNCHANGED <<JOBS, JOBS_LOCK, clock, worker, issued, scenario, result, db_dir>>

\* do_POST lines 601-620 and do_GET lines 542-547 with
\* _require_monitor_instance: without a valid instance the answer is 400,
\* otherwise the handler works on the resolved instance
MonitorInstanceRequest(r) ==
    LET instance == ResolveMonitorInstance(r.header, r.query, r.link) IN
    /\ req.pc = "idle"
    /\ resp' = IF instance = None
               THEN [NoResp EXCEPT !.code = 400, !.kind = "Instance not specified",
                                   !.given = <<r.header, r.query, r.link>>]
               ELSE [NoResp EXCEPT !.code = 200, !.kind = r.endpoint, !.used = instance,
                                   !.given = <<r.header, r.query, r.link>>]
    /\ req' = [IdleReq EXCEPT !.pc = "sent"]
    /\ UNCHANGED <<JOBS, JOBS_LOCK, clock, worker, issued, scenario, result, db_dir>>

\* do_POST lines 627-652 and do_GET lines 566-577: the handler is called
\* with the value of the body or of the path whenever it is not empty
\* (handle_restart_instance, handle_stop_instance, handle_start_instance,
\* handle_invalidate_session, handle_instance_logs, handle_broker_status)
DirectInstanceRequest(r) ==
    /\ req.pc = "idle"
    /\ resp' = IF r.instance = None \/ r.instance[1] = <<>>
               THEN [NoResp EXCEPT !.code = 400, !.kind = "Missing instance parameter"]
               ELSE [NoResp EXCEPT !.code = 200, !.kind = r.endpoint, !.used = r.instance]
    /\ req' = [IdleReq EXCEPT !.pc = "sent"]
    /\ UNCHANGED <<JOBS, JOBS_LOCK, clock, worker, issued, scenario, result, db_dir>>

\* the request is finished: the handler returns and the request thread
\* waits for the next request
FinishRequest ==
    /\ req.pc = "sent"
    /\ req' = IdleReq
    /\ resp' = NoResp
    /\ UNCHANGED <<JOBS, JOBS_LOCK, clock, worker, issued, scenario, result, db_dir>>

(***************************************************************************)
(* The worker threads: _run_script_job and its calls of _update_job.       *)
(***************************************************************************)
\* the fields job.update assigns, in order: the keyword arguments of the
\* call, the timestamp last
AllUpdates(me, t) == Append(me.updates, <<me.stamp, Some(t)>>)

\* the timestamp argument is evaluated, then _update_job lines 96-100: take
\* the lock, look the job up and, if it is there, job.update begins: it
\* assigns the first field (status)
UpdateJobLock(w, t) ==
    LET me == worker[w]
        found == LookupJob(JOBS, me.job_id)
        all == AllUpdates(me, t)
    IN  /\ me.pc = "update"
        /\ t \in Readings
        /\ clock' = t
        /\ JOBS_LOCK = Free
        /\ JOBS_LOCK' = WorkerThread(w)
        /\ JOBS' = IF found = None THEN JOBS
                   ELSE [JOBS EXCEPT ![IndexOf(JOBS, me.job_id)] =
                            ApplyUpdates(found[1], <<Head(all)>>)]
        /\ worker' = [worker EXCEPT ![w].pc = "apply",
                                    ![w].updates = all,
                                    ![w].found = found,
                                    ![w].missed = me.missed \/ found = None]
        /\ UNCHANGED <<req, resp, issued, scenario, result, db_dir>>

\* _update_job lines 100-101 (98-99 when the job is unknown): job.update
\* assigns the remaining fields, the call returns and releases the lock
UpdateJobUnlock(w) ==
    LET me == worker[w] IN
    /\ me.pc = "apply"
    /\ JOBS' = IF me.found = None THEN JOBS
               ELSE [JOBS EXCEPT ![IndexOf(JOBS, me.job_id)] =
                        ApplyUpdates(@, Tail(me.updates))]
    /\ JOBS_LOCK' = Free
    /\ worker' = [worker EXCEPT ![w] =
                    IF me.after = "done" THEN Ended(me, "done")
                    ELSE [me EXCEPT !.pc = me.after, !.updates = <<>>,
                                    !.stamp = "", !.found = None, !.after = ""]]
    /\ UNCHANGED <<clock, req, resp, issued, scenario, result, db_dir>>

\* where _run_script_job goes after the terminal update that a result of
\* the command led to, when the worker runs the command again after a
\* failure
AfterCommand_Retry(o) ==
    IF o.kind = "completed" /\ o.returncode = 0 THEN "done" ELSE "exec"

\* where _run_script_job goes after the terminal update: each of the three
\* branches ends the function (lines 127, 138, 146)
AfterCommand(o) == "done"

\* lines 111-146: subprocess.run returns, times out or raises, and the
\* worker builds the terminal update.  A timeout with captured output makes
\* the except clause itself raise, which ends the thread.
RunCommand(w, o) ==
    LET me == worker[w] IN
    /\ me.pc = "exec"
    /\ worker' = [worker EXCEPT ![w] =
                    LET ran == [me EXCEPT !.runs = me.runs + 1, !.outcome = Some(o)]
                    IN  IF o.kind = "timeout" /\ TimeoutHandlerRaises(o)
                        THEN Ended(ran, "crashed")
                        ELSE [ran EXCEPT !.pc = "update",
                                         !.updates = TerminalUpdates(o),
                                         !.stamp = "finished_at",
                                         !.after = AfterCommand(o)]]
    /\ UNCHANGED <<JOBS, JOBS_LOCK, clock, req, resp, issued, scenario, result, db_dir>>

(***************************************************************************)
(* Specification.                                                          *)
(***************************************************************************)
Next ==
    \/ \E r \in Requests, s \in BOOLEAN : RejectRequest(r.action, r.body, s)
    \/ \E r \in Requests, id \in JobIds, t \in 0..MaxClock :
            CreateJobInsert(r.action, r.body, id, t)
    \/ CreateJobPrune
    \/ StartThread
    \/ SendQueued
    \/ \E id \in JobIds : GetJobLocked(id)
    \/ GetJobReturn
    \/ SendJobStatus
    \/ \E r \in MonitorRequests : MonitorInstanceRequest(r)
    \/ \E r \in DirectRequests : DirectInstanceRequest(r)
    \/ FinishRequest
    \/ \E w \in Workers, t \in 0..MaxClock : UpdateJobLock(w, t)
    \/ \E w \in Workers : UpdateJobUnlock(w)
    \/ \E w \in Workers, o \in Outcomes : RunCommand(w, o)

Spec == Init /\ [][Next]_vars

SpecRequests == InitRequests /\ [][Next]_vars

SpecInstances == InitInstances /\ [][Next]_vars

SpecChurn == InitChurn /\ [][Next]_vars

\* the requests to the endpoints of the monitor, one after the other
NextMonitor ==
    \/ \E r \in MonitorRequests : MonitorInstanceRequest(r)
    \/ FinishRequest

SpecMonitor == InitMonitor /\ [][NextMonitor]_vars

\* the request thread keeps running once it has the lock: nothing on its
\* way from the insertion to the response waits for another thread.  No
\* fairness for the workers or for the command, which may never finish.
SpecLive ==
    /\ InitRequests
    /\ [][Next]_vars
    /\ WF_vars(CreateJobPrune)
    /\ WF_vars(StartThread)
    /\ WF_vars(SendQueued)

(***************************************************************************)
(* The functions of the handler, called on their own.                      *)
(***************************************************************************)
InitFunctions == InitWith("functions")

\* a call whose function is called once in a behaviour
FirstCall == scenario = "functions" /\ result.fn = ""

\* a call whose function is called twice in a behaviour
Calling(fn) ==
    /\ scenario = "functions"
    /\ result.fn = "" \/ (result.fn = fn /\ result.prior = None)

\* whitespace a client can put around a name
Pads == {<<>>, <<" ">>, <<"\t", "\n">>}

\* what a client, or the symlink of a host, can give for a name, before the
\* padding
Cores ==
    {<<>>, Str_openalgo, Str_openalgo7, Str_openalgo \o <<"1", "2">>,
     Str_openalgo \o <<"0", "7">>, Str_openalgo \o <<"SUP2">>,
     Str_openalgo \o <<"7", "a">>, Str_openalgo \o <<" ", "7">>,
     Str_openalgo \o <<"-", "7">>, Str_inject, Str_passwd,
     <<"O", "p", "e", "n", "A", "l", "g", "o", "7">>,
     <<"c", "l", "o", "s", "e", "a", "l", "g", "o", "7">>,
     <<"7">> \o Str_openalgo, <<"/">> \o Str_openalgo7}

SanitizeInputs == {None} \cup {Some(l \o c \o r) : l \in Pads, c \in Cores, r \in Pads}

\* the places _resolve_monitor_instance takes a candidate from
Sources == {"header", "query", "host"}

\* _resolve_monitor_instance lines 520, 525 and _resolve_instance_from_host
\* line 516: the check of one candidate
CallSanitizeInstance(source, candidate) ==
    /\ FirstCall
    /\ result' = [NoResult EXCEPT
            !.fn = "_sanitize_instance",
            !.arg = <<source, candidate>>,
            !.value = IF source = "host" THEN ResolveInstanceFromHost(candidate)
                      ELSE SanitizeInstance(candidate)]
    /\ UNCHANGED <<JOBS, JOBS_LOCK, clock, req, resp, worker, issued, scenario, db_dir>>

\* the candidates of one request: those of the clients and a second name
ResolveNames == AllNames \cup {Some(Str_openalgo \o <<"1", "2">>)}

\* _resolve_monitor_instance, called with the X-OpenAlgo-Instance header, the
\* instance parameter of the query and the link of the Host header
CallResolveMonitorInstance(header, query, link) ==
    /\ FirstCall
    /\ result' = [NoResult EXCEPT
            !.fn = "_resolve_monitor_instance",
            !.arg = <<header, query, link>>,
            !.value = ResolveMonitorInstance(header, query, link)]
    /\ UNCHANGED <<JOBS, JOBS_LOCK, clock, req, resp, worker, issued, scenario, db_dir>>

\* what a call gave: the value it returned, or that it raised
Returned(value) == [raised |-> FALSE, value |-> value]
Raised == [raised |-> TRUE, value |-> <<>>]

Str_DOMAIN == <<"D", "O", "M", "A", "I", "N", "=">>
Quotes == {"'", "\""}

\* str.strip(chars)
RECURSIVE StripOf(_, _)
StripOf(s, chars) ==
    IF s # <<>> /\ Head(s) \in chars THEN StripOf(Tail(s), chars)
    ELSE IF s # <<>> /\ s[Len(s)] \in chars THEN StripOf(SubSeq(s, 1, Len(s) - 1), chars)
    ELSE s

\* line.split(sep, 1)[1] for a line that has a sep
AfterFirst(line, sep) ==
    LET i == CHOOSE i \in 1..Len(line) :
                 line[i] = sep /\ \A k \in 1..(i - 1) : line[k] # sep
    IN  SubSeq(line, i + 1, Len(line))

\* str.replace for single characters
Replace(s, from, to) == [i \in 1..Len(s) |-> IF s[i] = from THEN to ELSE s[i]]

\* the loop of _service_name: the value of the first line that starts with
\* DOMAIN=, None when there is no such line
RECURSIVE DomainIn(_)
DomainIn(lines) ==
    IF lines = <<>> THEN None
    ELSE IF StartsWith(Head(lines), Str_DOMAIN)
         THEN Some(StripOf(Strip(AfterFirst(Head(lines), "=")), Quotes))
         ELSE DomainIn(Tail(lines))

ServiceName_Cached(instance, env) ==
    IF result.fn = "_service_name" /\ result.arg[1] = instance /\ ~result.raised
    THEN Returned(result.value)
    ELSE IF ~env.exists THEN Returned(instance)
    ELSE IF ~env.readable THEN Raised
    ELSE LET domain == DomainIn(env.lines) IN
         IF domain # None /\ domain[1] # <<>>
         THEN Returned(Str_openalgo \o <<"-">> \o Replace(domain[1], ".", "-"))
         ELSE Returned(instance)

\* _service_name: env is the .env file of the instance as the call finds
\* it; open() or the reading of a file that exists can fail (no permission,
\* a directory, bytes that are not text) and nothing catches that
ServiceName(instance, env) ==
    IF ~env.exists THEN Returned(instance)
    ELSE IF ~env.readable THEN Raised
    ELSE LET domain == DomainIn(env.lines) IN
         IF domain # None /\ domain[1] # <<>>
         THEN Returned(Str_openalgo \o <<"-">> \o Replace(domain[1], ".", "-"))
         ELSE Returned(instance)

\* lines of a .env file
Line_port == <<"P", "=", "1", "\n">>
Line_domain == Str_DOMAIN \o <<"a", ".", "b", "\n">>
Line_quoted == Str_DOMAIN \o <<"'", "x", ".", "y", ".", "z", "'", "\n">>
Line_padded == Str_DOMAIN \o <<" ", "c", ".", "d", " ", "\n">>
Line_empty == Str_DOMAIN \o <<"\n">>
Line_quotes == Str_DOMAIN \o <<"\"", "\"", "\n">>
Line_indented == <<" ">> \o Str_DOMAIN \o <<"e", ".", "f", "\n">>

EnvLines ==
    {Line_port, Line_domain, Line_quoted, Line_padded, Line_empty, Line_quotes,
     Line_indented}

\* the longest .env file
MaxLines == 2

\* the .env file as a call can find it: none, one that cannot be read, or
\* one with up to MaxLines lines
EnvFiles ==
    {[exists |-> FALSE, readable |-> FALSE, lines |-> <<>>],
     [exists |-> TRUE, readable |-> FALSE, lines |-> <<>>]}
    \cup {[exists |-> TRUE, readable |-> TRUE, lines |-> l] :
             l \in UNION {[1..n -> EnvLines] : n \in 0..MaxLines}}

ServiceInstances == {Str_openalgo7, Str_openalgo \o <<"1", "2">>}

\* a call of _service_name, as handle_restart_instance, handle_stop_instance
\* and handle_start_instance make it; the file is what it is at that time
CallServiceName(instance, env) ==
    /\ Calling("_service_name")
    /\ LET out == ServiceName(instance, env) IN
       result' = [NoResult EXCEPT
            !.fn = "_service_name",
            !.arg = <<instance, env>>,
            !.raised = out.raised,
            !.value = out.value,
            !.prior = IF result.fn = "_service_name" /\ result.arg[1] = instance
                         /\ ~result.raised
                      THEN Some(result.value) ELSE None]
    /\ UNCHANGED <<JOBS, JOBS_LOCK, clock, req, resp, worker, issued, scenario, db_dir>>

\* what _get_auth_db_file finds under the db directory of the instance:
\* "candidate": one of openalgo<n>.db, openalgo.db, auth.db has the auth table;
\* "no directory": none of them has and there is no db directory;
\* "unreadable": none of them has and the db directory cannot be listed;
\* "scanned": none of them has, another .db file of the directory has;
\* "nothing": none of them has and no file of the directory has
DbDirs == {"candidate", "no directory", "unreadable", "scanned", "nothing"}

\* _get_auth_db_file: the path of the database, None when there is none;
\* os.scandir raises for a directory it may not list, outside every try
GetAuthDbFile(dir) ==
    IF dir = "candidate" THEN Returned(Some("candidate"))
    ELSE IF dir = "no directory" THEN Returned(None)
    ELSE IF dir = "unreadable" THEN Raised
    ELSE IF dir = "scanned" THEN Returned(Some("scanned"))
    ELSE Returned(None)

\* x is None or str(x).strip() == ""
Blank(x) == x = None \/ Strip(x[1]) = <<>>

AuthAnswer(authenticated, reason, broker, name) ==
    [authenticated |-> authenticated, reason |-> reason, broker |-> broker, name |-> name]

Classify_RevokedFirst(row) ==
    IF Blank(row.name)
    THEN AuthAnswer(FALSE, "Not Authenticated - User not Setup", row.broker, row.name)
    ELSE IF row.is_revoked = 1
    THEN AuthAnswer(FALSE, "Not Authenticated - User Token Revoked", row.broker, row.name)
    ELSE IF Blank(row.broker)
    THEN AuthAnswer(FALSE, "Not Authenticated - Invalid Token", row.broker, row.name)
    ELSE IF Blank(row.auth) \/ Blank(row.feed_token)
    THEN AuthAnswer(FALSE, "Not Authenticated - Invalid Token", row.broker, row.name)
    ELSE AuthAnswer(TRUE, "User Authenticated", row.broker, row.name)

Classify_NamesOnlyWhenAuthenticated(row) ==
    IF Blank(row.name)
    THEN AuthAnswer(FALSE, "Not Authenticated - User not Setup", None, None)
    ELSE IF row.is_revoked = 1
            /\ ~(Blank(row.auth) \/ Blank(row.feed_token) \/ Blank(row.broker))
    THEN AuthAnswer(FALSE, "Not Authenticated - Invalid Token", None, None)
    ELSE IF row.is_revoked = 1
    THEN AuthAnswer(FALSE, "Not Authenticated - User Token Revoked", None, None)
    ELSE IF Blank(row.broker)
    THEN AuthAnswer(FALSE, "Not Authenticated - Invalid Token", None, None)
    ELSE IF Blank(row.auth) \/ Blank(row.feed_token)
    THEN AuthAnswer(FALSE, "Not Authenticated - Invalid Token", None, None)
    ELSE AuthAnswer(TRUE, "User Authenticated", row.broker, row.name)

\* _read_auth_status lines 464-480: the classification of the row
Classify(row) ==
    IF Blank(row.name)
    THEN AuthAnswer(FALSE, "Not Authenticated - User not Setup", row.broker, row.name)
    ELSE IF row.is_revoked = 1
            /\ ~(Blank(row.auth) \/ Blank(row.feed_token) \/ Blank(row.broker))
    THEN AuthAnswer(FALSE, "Not Authenticated - Invalid Token", row.broker, row.name)
    ELSE IF row.is_revoked = 1
    THEN AuthAnswer(FALSE, "Not Authenticated - User Token Revoked", row.broker, row.name)
    ELSE IF Blank(row.broker)
    THEN AuthAnswer(FALSE, "Not Authenticated - Invalid Token", row.broker, row.name)
    ELSE IF Blank(row.auth) \/ Blank(row.feed_token)
    THEN AuthAnswer(FALSE, "Not Authenticated - Invalid Token", row.broker, row.name)
    ELSE AuthAnswer(TRUE, "User Authenticated", row.broker, row.name)

\* _read_auth_status: dir is what the search for the database finds, db is
\* what the database gives: "no connection" when sqlite3.connect raises,
\* "no answer" when the query raises, "empty" when the table has no row,
\* "row" with the first row of the table
ReadAuthStatus(dir, db) ==
    LET db_file == GetAuthDbFile(dir) IN
    IF db_file.raised THEN Raised
    ELSE IF db_file.value = None
    THEN Returned(AuthAnswer(FALSE, "Not Authenticated - User not Setup", None, None))
    ELSE IF db.state = "no connection"
    THEN Returned(AuthAnswer(FALSE, "Auth check failed", None, None))
    ELSE IF db.state \in {"no answer", "empty"}
    THEN Returned(AuthAnswer(FALSE, "Not Authenticated - User not Setup", None, None))
    ELSE Returned(Classify(db.row))

\* the values of a column of the auth table: NULL, empty, blank, a text
Column(text) == {None, Some(<<>>), Some(<<" ">>), Some(text)}

AuthRows ==
    [is_revoked : {0, 1}, auth : Column(<<"x">>), feed_token : Column(<<"y">>),
     broker : Column(<<"z">>), name : Column(<<"B", "o", "b">>)]

NoRow == [is_revoked |-> 0, auth |-> None, feed_token |-> None, broker |-> None,
          name |-> None]

\* the databases a call can meet
Databases ==
    {[state |-> st, row |-> NoRow] : st \in {"no connection", "no answer", "empty"}}
    \cup {[state |-> "row", row |-> row] : row \in AuthRows}

\* a database is opened only when one was found
AuthCalls ==
    {<<dir, db>> \in DbDirs \X Databases :
        dir \in {"candidate", "scanned"} \/ db = [state |-> "empty", row |-> NoRow]}

\* a call of _read_auth_status, as _get_instance_health makes it
CallReadAuthStatus(dir, db) ==
    /\ FirstCall
    /\ LET out == ReadAuthStatus(dir, db) IN
       result' = [NoResult EXCEPT
            !.fn = "_read_auth_status",
            !.arg = <<dir, db>>,
            !.raised = out.raised,
            !.value = out.value]
    /\ UNCHANGED <<JOBS, JOBS_LOCK, clock, req, resp, worker, issued, scenario, db_dir>>

\* Time is counted in ticks since a midnight; a naive datetime is a number
\* of ticks.  The finest step of the clock in the model:
TicksPerHalfHour == 1

Hour == 2 * TicksPerHalfHour
Day == 24 * Hour

\* the days the clock runs through
MaxDays == 2

\* _ist_now: the UTC time moved by +05:30, without its time zone
IstNow(utc) == utc + 5 * Hour + TicksPerHalfHour

\* now_ist.replace(hour=3, minute=0, second=0, microsecond=0)
CutoverHour == 3

AtCutover(now_ist) == (now_ist \div Day) * Day + CutoverHour * Hour

IstWindowStart_RollsBackAtCutover(now_ist) ==
    IF now_ist <= AtCutover(now_ist) THEN AtCutover(now_ist) - Day ELSE AtCutover(now_ist)

\* _ist_window_start
IstWindowStart(now_ist) ==
    IF now_ist < AtCutover(now_ist) THEN AtCutover(now_ist) - Day ELSE AtCutover(now_ist)

\* the readings of the UTC clock
UtcTimes == 0..(MaxDays * Day - 1)

\* _get_master_contract_status lines 359-361: now, the start of the window
\* and its end
CallIstWindowStart(utc) ==
    /\ FirstCall
    /\ LET now_ist == IstNow(utc)
           window_start == IstWindowStart(now_ist)
       IN  result' = [NoResult EXCEPT
                !.fn = "_ist_window_start",
                !.arg = <<now_ist>>,
                !.value = [window_start |-> window_start,
                           window_end |-> window_start + Day]]
    /\ UNCHANGED <<JOBS, JOBS_LOCK, clock, req, resp, worker, issued, scenario, db_dir>>

\* _get_db_file_with_table: as _get_auth_db_file, for the status table
GetDbFileWithTable(dir) ==
    IF dir = "candidate" THEN Returned(Some("candidate"))
    ELSE IF dir = "no directory" THEN Returned(None)
    ELSE IF dir = "unreadable" THEN Raised
    ELSE IF dir = "scanned" THEN Returned(Some("scanned"))
    ELSE Returned(None)

\* a value of the column last_updated: NULL, a text that is a date and time
\* (at: the naive datetime it gives), or a text that is none and that sorts
\* after every date ("pending")
Null == [kind |-> "null", at |-> 0]
Garbage == [kind |-> "garbage", at |-> 0]
Naive(at) == [kind |-> "naive", at |-> at]

\* a date and time written without leading zeros, as '2026-11-6 4:0:0':
\* strptime takes it for the datetime at, the datetime() of SQLite gives
\* NULL for it, and as a text it sorts after the dates of its year that are
\* written in full
Loose(at) == [kind |-> "loose", at |-> at]

\* _parse_db_datetime: the naive datetime, None for what cannot be parsed
ParseDbDatetime(value) ==
    IF value.kind \in {"naive", "loose"} THEN Some(value.at) ELSE None

\* ORDER BY last_updated DESC: a sorts before b; NULL sorts last
Above(a, b) ==
    \/ a.kind = "garbage" /\ b.kind # "garbage"
    \/ a.kind = "loose" /\ b.kind \in {"naive", "null"}
    \/ a.kind = "loose" /\ b.kind = "loose" /\ a.at > b.at
    \/ a.kind = "naive" /\ b.kind = "null"
    \/ a.kind = "naive" /\ b.kind = "naive" /\ a.at > b.at

\* the rows in the order of the query; rows with equal values stay in the
\* order of the table
OrderDesc(rows) ==
    LET before(j, i) == \/ Above(rows[j].last_updated, rows[i].last_updated)
                        \/ /\ ~Above(rows[i].last_updated, rows[j].last_updated)
                           /\ j < i
        place(i) == 1 + Cardinality({j \in 1..Len(rows) : before(j, i)})
    IN  [p \in 1..Len(rows) |-> rows[CHOOSE i \in 1..Len(rows) : place(i) = p]]

\* WHERE is_ready=1
RECURSIVE WhereReady(_)
WhereReady(rows) ==
    IF rows = <<>> THEN <<>>
    ELSE IF Head(rows).is_ready = 1 THEN <<Head(rows)>> \o WhereReady(Tail(rows))
    ELSE WhereReady(Tail(rows))

\* the LIMIT of the query for the ready rows, 20 in the source
ReadyLimit == 1

\* the second query: the ReadyLimit latest of the rows with is_ready=1
ReadyRows(rows) ==
    LET sorted == OrderDesc(WhereReady(rows)) IN
    IF Len(sorted) > ReadyLimit THEN SubSeq(sorted, 1, ReadyLimit) ELSE sorted

InWindow_Closed(row_dt, window_start, window_end) ==
    row_dt # None /\ window_start <= row_dt[1] /\ row_dt[1] <= window_end

\* line 366: row_dt and window_start <= row_dt < window_end
InWindow(row_dt, window_start, window_end) ==
    row_dt # None /\ window_start <= row_dt[1] /\ row_dt[1] < window_end

StatusAnswer(is_ready, latest) ==
    [is_ready |-> is_ready,
     status |-> IF is_ready THEN "Master Contract Data Ready"
                ELSE "Master Contract Data Not Ready",
     latest |-> latest]

GetMasterContractStatus_NoExcept(dir, db, utc) ==
    LET db_file == GetDbFileWithTable(dir) IN
    IF db_file.raised \/ (db_file.value # None /\ db.state = "no answer") THEN Raised
    ELSE IF db_file.value = None
    THEN Returned(StatusAnswer(FALSE, None))
    ELSE LET ready_rows == ReadyRows(db.rows)
             window_start == IstWindowStart(IstNow(utc))
             window_end == window_start + Day
             is_ready == \E i \in 1..Len(ready_rows) :
                            InWindow(ParseDbDatetime(ready_rows[i].last_updated),
                                     window_start, window_end)
         IN  Returned(StatusAnswer(is_ready,
                 IF db.rows = <<>> THEN None ELSE Some(OrderDesc(db.rows)[1])))

\* _get_master_contract_status: dir is what the search for the database
\* finds, db what the database gives ("no answer" when the connection or a
\* query raises), utc the reading of the clock; latest is the row whose
\* broker, message, last_updated and total_symbols are reported
GetMasterContractStatus(dir, db, utc) ==
    LET db_file == GetDbFileWithTable(dir) IN
    IF db_file.raised THEN Raised
    ELSE IF db_file.value = None \/ db.state = "no answer"
    THEN Returned(StatusAnswer(FALSE, None))
    ELSE LET ready_rows == ReadyRows(db.rows)
             window_start == IstWindowStart(IstNow(utc))
             window_end == window_start + Day
             is_ready == \E i \in 1..Len(ready_rows) :
                            InWindow(ParseDbDatetime(ready_rows[i].last_updated),
                                     window_start, window_end)
         IN  Returned(StatusAnswer(is_ready,
                 IF db.rows = <<>> THEN None ELSE Some(OrderDesc(db.rows)[1])))

\* the cutover of the second day, and the instants one tick before, at and
\* one tick after a cutover
SecondCutover == Day + CutoverHour * Hour
Around(cutover) == {cutover - 1, cutover, cutover + 1}

\* the rows of the status table: ready or not, with a timestamp around the
\* cutover of the first, the second or the third day, or with none
StatusRows ==
    [is_ready : {0, 1},
     last_updated : {Null, Garbage} \cup
         {Naive(at) : at \in Around(SecondCutover - Day) \cup Around(SecondCutover)
                               \cup Around(SecondCutover + Day)}]

\* the status table holds up to one row more than the query takes
StatusTables == UNION {[1..n -> StatusRows] : n \in 0..(ReadyLimit + 1)}

\* the calls: a database is read only when one was found, and the clock is
\* read around the second cutover
StatusCalls ==
    {<<"candidate", [state |-> "rows", rows |-> t], utc>> :
        t \in StatusTables, utc \in {u \in UtcTimes : IstNow(u) \in Around(SecondCutover)}}
    \cup {<<dir, [state |-> st, rows |-> <<>>], SecondCutover>> :
             dir \in DbDirs, st \in {"no answer", "rows"}}

\* a call of _get_master_contract_status, as _get_instance_health makes it
CallGetMasterContractStatus(dir, db, utc) ==
    /\ FirstCall
    /\ LET out == GetMasterContractStatus(dir, db, utc) IN
       result' = [NoResult EXCEPT
            !.fn = "_get_master_contract_status",
            !.arg = <<dir, db, utc>>,
            !.raised = out.raised,
            !.value = out.value]
    /\ UNCHANGED <<JOBS, JOBS_LOCK, clock, req, resp, worker, issued, scenario, db_dir>>

\* a value that an if takes for true: not None and not the empty text
Truthy(x) == x # None /\ x[1] # <<>>

\* _get_instance_health, the fields that come from the auth database: the
\* dict starts with session_valid True and every try has except: pass
GetInstanceHealth(dir, db) ==
    LET db_file == GetAuthDbFile(dir)
        auth == ReadAuthStatus(dir, db)
        health == [database |-> ~db_file.raised /\ db_file.value # None,
                   session_valid |-> TRUE, auth_status |-> None,
                   broker |-> None, auth_name |-> None]
    IN  IF auth.raised THEN health
        ELSE [health EXCEPT
                !.session_valid = auth.value.authenticated,
                !.broker = IF Truthy(auth.value.broker) THEN auth.value.broker ELSE @,
                !.auth_name = IF Truthy(auth.value.name) THEN auth.value.name ELSE @,
                !.auth_status = Some(auth.value.reason)]

\* a call of _get_instance_health, as the monitor's handlers make it
CallGetInstanceHealth(dir, db) ==
    /\ FirstCall
    /\ result' = [NoResult EXCEPT
            !.fn = "_get_instance_health",
            !.arg = <<dir, db>>,
            !.value = GetInstanceHealth(dir, db)]
    /\ UNCHANGED <<JOBS, JOBS_LOCK, clock, req, resp, worker, issued, scenario, db_dir>>

NextFunctions ==
    \/ /\ FirstCall
       /\ \E source \in Sources, candidate \in SanitizeInputs :
               CallSanitizeInstance(source, candidate)
    \/ /\ FirstCall
       /\ \E header \in ResolveNames, query \in ResolveNames, link \in ResolveNames :
               CallResolveMonitorInstance(header, query, link)
    \/ /\ Calling("_service_name")
       /\ \E instance \in ServiceInstances, env \in EnvFiles :
               CallServiceName(instance, env)
    \/ /\ FirstCall
       /\ \E call \in AuthCalls : CallReadAuthStatus(call[1], call[2])
    \/ /\ FirstCall
       /\ \E utc \in UtcTimes : CallIstWindowStart(utc)
    \/ /\ FirstCall
       /\ \E call \in StatusCalls :
               CallGetMasterContractStatus(call[1], call[2], call[3])
    \/ /\ FirstCall
       /\ \E call \in AuthCalls : CallGetInstanceHealth(call[1], call[2])

SpecFunctions == InitFunctions /\ [][NextFunctions]_vars


(***************************************************************************)
(* Session invalidation: _invalidate_session and the two readers on the   *)
(* databases of one instance, openalgo7.                                   *)
(***************************************************************************)
\* the paths _get_db_file_with_table tries before it lists the directory
TableCandidates == <<"openalgo7.db", "openalgo.db">>

\* the paths _get_auth_db_file tries before it lists the directory
AuthCandidates == <<"openalgo7.db", "openalgo.db", "auth.db">>

HasFile(files, name) == \E i \in 1..Len(files) : files[i].name = name

FileIndex(files, name) == CHOOSE i \in 1..Len(files) : files[i].name = name

\* the search of both functions over files, the files of the directory that
\* have the table: the first candidate among them, else the first of them
\* in the listing, else None
FindDbFile(candidates, files) ==
    LET hits == {k \in 1..Len(candidates) : HasFile(files, candidates[k])} IN
    IF hits # {}
    THEN Some(candidates[CHOOSE k \in hits : \A other \in hits : k <= other])
    ELSE IF files # <<>> THEN Some(files[1].name)
    ELSE None

\* _get_db_file_with_table(instance, "auth")
DbFileWithTableIn(files) == FindDbFile(TableCandidates, files)

\* _get_auth_db_file(instance)
AuthDbFileIn(files) == FindDbFile(AuthCandidates, files)

\* UPDATE auth SET auth=NULL, feed_token=NULL, is_revoked=1
RevokeRow(row) == [row EXCEPT !.auth = None, !.feed_token = None, !.is_revoked = 1]

\* datetime(last_updated) of SQLite: NULL for NULL and for a text that is
\* not a date and time in one of its formats
SqlDatetime(value) == IF value.kind = "naive" THEN Some(value.at) ELSE None

\* WHERE datetime(last_updated) >= datetime(?) AND datetime(last_updated) <
\* datetime(?): a comparison with NULL is not true
SqlInWindow(row, window_start, window_end) ==
    LET dt == SqlDatetime(row.last_updated) IN
    dt # None /\ window_start <= dt[1] /\ dt[1] < window_end

\* DELETE FROM master_contract_status WHERE ...: the rows that stay
RECURSIVE DeleteWindow(_, _, _)
DeleteWindow(rows, window_start, window_end) ==
    IF rows = <<>> THEN <<>>
    ELSE (IF SqlInWindow(Head(rows), window_start, window_end) THEN <<>>
          ELSE <<Head(rows)>>)
         \o DeleteWindow(Tail(rows), window_start, window_end)

\* the invalidation that is in force: the call of _invalidate_session
\* before the call that is made now
Invalidation == IF result.fn = "_invalidate_session" THEN Some(result) ELSE result.prior

\* _invalidate_session: auth_fails and master_fails tell whether the
\* connection or the statement on that database raises
InvalidateSession(auth_fails, master_fails) ==
    LET auth_db == DbFileWithTableIn(db_dir.auth)
        auth_updated == auth_db # None /\ ~auth_fails
        window_start == IstWindowStart(IstNow(clock))
        window_end == window_start + Day
        master_done == db_dir.master # None /\ ~master_fails
        kept == DeleteWindow(db_dir.master[1], window_start, window_end)
    IN  /\ scenario = "session"
        /\ Invalidation = None
        /\ db_dir' =
              [auth |-> IF auth_updated
                        THEN [db_dir.auth EXCEPT
                                 ![FileIndex(db_dir.auth, auth_db[1])].row = RevokeRow(@)]
                        ELSE db_dir.auth,
               master |-> IF master_done THEN Some(kept) ELSE db_dir.master]
        /\ result' = [NoResult EXCEPT
              !.fn = "_invalidate_session",
              !.arg = <<db_dir, clock>>,
              !.value = [auth_updated |-> auth_updated,
                         auth_error |-> ~auth_updated,
                         master_deleted |-> IF master_done
                                            THEN Len(db_dir.master[1]) - Len(kept) ELSE 0,
                         master_error |-> ~master_done]]
        /\ UNCHANGED <<JOBS, JOBS_LOCK, clock, req, resp, worker, issued, scenario>>

\* _read_auth_status on the files of the directory
ReadAuthStatusIn(files) ==
    LET db_file == AuthDbFileIn(files) IN
    IF db_file = None
    THEN ReadAuthStatus("nothing", [state |-> "empty", row |-> NoRow])
    ELSE ReadAuthStatus("candidate",
             [state |-> "row", row |-> files[FileIndex(files, db_file[1])].row])

\* a call of _read_auth_status for the instance
SessionReadAuthStatus ==
    /\ scenario = "session"
    /\ LET out == ReadAuthStatusIn(db_dir.auth) IN
       result' = [NoResult EXCEPT
            !.fn = "_read_auth_status",
            !.arg = <<db_dir, clock>>,
            !.raised = out.raised,
            !.value = out.value,
            !.prior = Invalidation]
    /\ UNCHANGED <<JOBS, JOBS_LOCK, clock, req, resp, worker, issued, scenario, db_dir>>

\* a call of _get_master_contract_status for the instance
SessionGetMasterContractStatus ==
    /\ scenario = "session"
    /\ LET out == IF db_dir.master = None
                  THEN GetMasterContractStatus("nothing", [state |-> "rows", rows |-> <<>>],
                                               clock)
                  ELSE GetMasterContractStatus("candidate",
                           [state |-> "rows", rows |-> db_dir.master[1]], clock)
       IN  result' = [NoResult EXCEPT
                !.fn = "_get_master_contract_status",
                !.arg = <<db_dir, clock>>,
                !.raised = out.raised,
                !.value = out.value,
                !.prior = Invalidation]
    /\ UNCHANGED <<JOBS, JOBS_LOCK, clock, req, resp, worker, issued, scenario, db_dir>>

\* the clock of the session runs from one hour before the cutover of the
\* third day to that cutover
SessionStart == {utc \in UtcTimes : IstNow(utc) = SecondCutover + Day - Hour}

\* _ist_now reads a later time
Tick ==
    /\ scenario = "session"
    /\ IstNow(clock + 1) <= SecondCutover + Day
    /\ clock' = clock + 1
    /\ UNCHANGED <<JOBS, JOBS_LOCK, req, resp, worker, issued, scenario, result, db_dir>>

\* the first row of the auth table
SessionAuthRows ==
    [is_revoked : {0, 1}, auth : {None, Some(<<"x">>)}, feed_token : {None, Some(<<"y">>)},
     broker : {None, Some(<<"z">>)}, name : {None, Some(<<" ">>), Some(<<"B", "o", "b">>)}]

\* the files that have the auth table, in the order of the listing: none,
\* one or two of the instance's database, auth.db and another database
AuthFileNames == {"openalgo7.db", "auth.db", "other.db"}

AuthListings ==
    {<<>>} \cup {<<a>> : a \in AuthFileNames}
           \cup {pair \in AuthFileNames \X AuthFileNames : pair[1] # pair[2]}

\* every file that has the table has the same row in it
AuthDirs ==
    {[auth |-> [i \in 1..Len(names) |-> [name |-> names[i], row |-> row]],
      master |-> None] : names \in AuthListings, row \in SessionAuthRows}

\* the rows of the status table: as StatusRows, around the start and the
\* end of the window of the session, in both ways of writing the time
SessionStatusRows ==
    [is_ready : {0, 1},
     last_updated : {Null, Garbage} \cup
         {Naive(at) : at \in {SecondCutover - 1, SecondCutover,
                              SecondCutover + Day - 1, SecondCutover + Day}} \cup
         {Loose(at) : at \in {SecondCutover - 1, SecondCutover,
                              SecondCutover + Day - 1, SecondCutover + Day}}]

StatusDirs ==
    {[auth |-> <<>>, master |-> Some(rows)] :
        rows \in UNION {[1..n -> SessionStatusRows] : n \in 0..(ReadyLimit + 1)}}

InitSession ==
    /\ JOBS = <<>>
    /\ JOBS_LOCK = Free
    /\ clock \in SessionStart
    /\ req = IdleReq
    /\ resp = NoResp
    /\ worker = [w \in Workers |-> Unborn]
    /\ issued = <<>>
    /\ scenario = "session"
    /\ result = NoResult
    /\ db_dir \in AuthDirs \cup StatusDirs

NextSession ==
    \/ \E auth_fails \in BOOLEAN, master_fails \in BOOLEAN :
            InvalidateSession(auth_fails, master_fails)
    \/ SessionReadAuthStatus
    \/ SessionGetMasterContractStatus
    \/ Tick

SpecSession == InitSession /\ [][NextSession]_vars


(***************************************************************************)
(* The enhanced API (openalgo-restart-api-enhanced.py): restart, stop and  *)
(* start of one instance.                                                  *)
(***************************************************************************)
Str_openalgo8 == Str_openalgo \o <<"8">>
Str_error == <<"e", "r", "r", "o", "r">>

\* what subprocess.run gives for ls | grep "^openalgo": it completed with
\* these lines on stdout, or it raised (timeout, no bash)
LsOutcomes ==
    {[kind |-> "completed", stdout |-> lines] :
        lines \in {<<>>, <<Str_openalgo7>>, <<Str_openalgo8>>,
                   <<Str_openalgo7, Str_openalgo8 \o <<" ">>>>}}
    \cup {[kind |-> "raised", stdout |-> <<>>]}

\* get_instances: the list of the stripped non-empty lines (as a set; its
\* order is not used here), or the dict {"error": str(e)}
GetInstances(ls) ==
    IF ls.kind = "completed"
    THEN [type |-> "list",
          items |-> {Strip(ls.stdout[i]) : i \in 1..Len(ls.stdout)} \ {<<>>}]
    ELSE [type |-> "dict", items |-> {Str_error}]

\* instance in instances: an element of the list, a key of the dict
IsIn(instance, instances) == instance \in instances.items

\* what one of the three operations gives: the value it returns and the
\* systemctl command it ran or handed to a thread, None when there was none
Operated(ok, command) == [ok |-> ok, command |-> command]

\* trigger_restart_instance: the thread that runs systemctl restart is
\* started and True is returned
TriggerRestartInstance(instance, ls) ==
    IF ~IsIn(instance, GetInstances(ls)) THEN Operated(FALSE, None)
    ELSE Operated(TRUE, Some(<<"restart", instance>>))

\* stop_instance / start_instance: run is how systemctl ended; check=True
\* raises on a non-zero exit and the except clause returns False
StopOrStartInstance(verb, instance, ls, run) ==
    IF ~IsIn(instance, GetInstances(ls)) THEN Operated(FALSE, None)
    ELSE Operated(run = "ok", Some(<<verb, instance>>))

\* the names a client asks for (do_POST has rejected a missing or empty one)
EnhancedNames ==
    {Str_openalgo7, Str_openalgo8, Str_padded, Str_openalgo, Str_passwd, Str_error}

RunOutcomes == {"ok", "failed"}

EnhancedCall(fn, instance, ls, run, out) ==
    /\ scenario = "enhanced"
    /\ result.fn = ""
    /\ result' = [NoResult EXCEPT !.fn = fn, !.arg = <<instance, ls, run>>, !.value = out]
    /\ UNCHANGED <<JOBS, JOBS_LOCK, clock, req, resp, worker, issued, scenario, db_dir>>

\* POST /api/restart-instance
CallTriggerRestartInstance(instance, ls) ==
    EnhancedCall("trigger_restart_instance", instance, ls, "ok",
                 TriggerRestartInstance(instance, ls))

\* POST /api/stop-instance
CallStopInstance(instance, ls, run) ==
    EnhancedCall("stop_instance", instance, ls, run,
                 StopOrStartInstance("stop", instance, ls, run))

\* POST /api/start-instance
CallStartInstance(instance, ls, run) ==
    EnhancedCall("start_instance", instance, ls, run,
                 StopOrStartInstance("start", instance, ls, run))

InitEnhanced == InitWith("enhanced")

NextEnhanced ==
    \/ \E instance \in EnhancedNames, ls \in LsOutcomes :
            CallTriggerRestartInstance(instance, ls)
    \/ \E instance \in EnhancedNames, ls \in LsOutcomes, run \in RunOutcomes :
            CallStopInstance(instance, ls, run)
    \/ \E instance \in EnhancedNames, ls \in LsOutcomes, run \in RunOutcomes :
            CallStartInstance(instance, ls, run)

SpecEnhanced == InitEnhanced /\ [][NextEnhanced]_vars


(***************************************************************************)
(* Properties.                                                             *)
(***************************************************************************)
JobOf(id) == LookupJob(JOBS, id)

JobOfNext(id) == LookupJob(JOBS', id)

\* C1: outside the critical section of _create_job the registry holds at
\* most JOB_LIMIT records: the prune runs before the insertion completes.
C1_SizeBound == req.pc # "prune" => Len(JOBS) <= JOB_LIMIT

\* an insertion went above the limit and completed: more ids were stored
\* than the registry holds
C1_Witness ==
    /\ req.pc = "spawn"
    /\ Cardinality(Drawn) > JOB_LIMIT
    /\ Len(JOBS) = JOB_LIMIT

\* C2: a record that is terminal (and not inside an update) is not changed
\* by any step as long as it is in the registry.
C2_TerminalImmutable ==
    [][\A id \in JobIds :
        (/\ JOBS_LOCK = Free
         /\ JobOf(id) # None
         /\ JobOf(id)[1].status \in Terminal
         /\ JobOfNext(id) # None)
        => JobOfNext(id) = JobOf(id)]_vars

\* the status changes the state machine of a job allows
AllowedStatusChange(from, to) ==
    \/ from = to
    \/ from = "queued" /\ to = "running"
    \/ from = "running" /\ to \in Terminal

\* C3: a record enters the registry as queued, and every change of its
\* status is queued->running or running->success/error/timeout.
C3_StatusMachine ==
    [][\A id \in JobIds :
        /\ (JobOf(id) = None /\ JobOfNext(id) # None)
              => JobOfNext(id)[1].status = "queued"
        /\ (JobOf(id) # None /\ JobOfNext(id) # None)
              => AllowedStatusChange(JobOf(id)[1].status, JobOfNext(id)[1].status)]_vars

\* C4: when the worker thread of a job has ended, the job, if it is still
\* in the registry, is success, error or timeout (so no job stays queued or
\* running forever).
C4_EndedWorkerLeftTerminal ==
    \A w \in Workers :
        (worker[w].pc \in {"done", "crashed"} /\ JobOf(issued[w]) # None)
        => JobOf(issued[w])[1].status \in Terminal

\* a record as it is between two calls of _update_job of the one worker
\* that owns it
WholeRecord(job) ==
    \/ job.status = "queued" /\ job.started_at = None /\ job.finished_at = None
    \/ job.status = "running" /\ job.started_at # None /\ job.finished_at = None
    \/ job.status \in Terminal /\ job.started_at # None /\ job.finished_at # None

\* C5: the copy a poll takes is never a partially updated record: it is a
\* whole record, and for a worker that is inside _update_job on that job it
\* is the record before or after that update.
C5_PollSeesWholeRecord ==
    (req.pc = "polled" /\ req.snap # None) =>
        /\ WholeRecord(req.snap[1])
        /\ req.snap = JobOf(req.poll_id)
        /\ \A w \in Workers :
              (worker[w].pc = "apply" /\ worker[w].job_id = req.poll_id
                  /\ worker[w].found # None)
              => \/ req.snap = worker[w].found
                 \/ req.snap = Some(ApplyUpdates(worker[w].found[1], worker[w].updates))

\* a poll holds its copy while the worker of that job waits for the lock
\* with its terminal update
C5_Witness ==
    /\ req.pc = "polled"
    /\ req.snap # None
    /\ req.snap[1].status = "running"
    /\ \E w \in Workers :
          /\ worker[w].pc = "update"
          /\ worker[w].job_id = req.poll_id
          /\ worker[w].stamp = "finished_at"

\* C6: every instance name a handler puts into a file path, a shell command
\* or a database path passes the naming check.
C6_UsedNamesValid == resp.used # None => SanitizeInstance(resp.used) # None

\* the scopes the interface allows for an action
SpecScopes(action) ==
    IF action = "health-check" THEN {"all", "system", "instance"} ELSE {"all", "instance"}

ScopeWord(scope) ==
    IF scope = Str_all THEN "all"
    ELSE IF scope = Str_system THEN "system"
    ELSE IF scope = Str_instance THEN "instance" ELSE "other"

ValidName(text) ==
    /\ Len(text) > 8
    /\ SubSeq(text, 1, 8) = Str_openalgo
    /\ \A i \in 9..Len(text) : text[i] \in Digits

\* the request a job record was created for was acceptable
FromValidRequest(job) ==
    /\ ScopeWord(job.params.scope) \in SpecScopes(job.action)
    /\ job.params.scope = Str_instance =>
          job.params.instance # None /\ ValidName(job.params.instance[1])

\* C7: a rejected health-check or update request leaves the registry and
\* the workers as they are, the instance is checked before the script is
\* looked up, and no job exists for a request that had to be rejected
\* (scope not allowed for the action, scope instance without a valid name).
C7_RejectedRequestsCreateNothing ==
    /\ [](\A i \in 1..Len(JOBS) : FromValidRequest(JOBS[i]))
    /\ [](resp.kind \in {"Invalid scope", "Invalid or missing instance"} => ~resp.looked)
    /\ [][(req.pc = "idle" /\ resp'.kind \in
                {"Invalid scope", "Invalid or missing instance", "script not found"})
            => (JOBS' = JOBS /\ worker' = worker /\ issued' = issued
                /\ JOBS_LOCK' = JOBS_LOCK)]_vars

\* a request with an invalid instance was rejected, before the script
\* lookup, while the registry holds a health-check job of scope system
C7_Witness ==
    /\ req.pc = "sent"
    /\ resp.kind = "Invalid or missing instance"
    /\ ~resp.looked
    /\ \E i \in 1..Len(JOBS) :
          JOBS[i].action = "health-check" /\ JOBS[i].params.scope = Str_system

\* C8: the ids _create_job returned are pairwise different.
C8_UniqueIds ==
    \A i, j \in 1..Len(issued) : i # j => issued[i] # issued[j]

\* C9: the prune removes Len(JOBS) - JOB_LIMIT records when that is
\* positive, no survivor is older than a removed record, and the survivors
\* are unchanged.
C9_PruneEvictsOldest ==
    [][(req.pc = "prune" /\ req'.pc = "spawn") =>
        LET gone == {i \in 1..Len(JOBS) : JobOfNext(JOBS[i].id) = None}
            kept == (1..Len(JOBS)) \ gone
        IN  /\ Cardinality(gone) =
                  (IF Len(JOBS) > JOB_LIMIT THEN Len(JOBS) - JOB_LIMIT ELSE 0)
            /\ Len(JOBS') = Cardinality(kept)
            /\ \A i \in kept : JobOfNext(JOBS[i].id) = Some(JOBS[i])
            /\ \A i \in kept, j \in gone :
                  JOBS[i].created_ts >= JOBS[j].created_ts]_vars

\* a prune has evicted a record and left the records created after time 0
C9_Witness ==
    /\ req.pc = "spawn"
    /\ Len(JOBS) = JOB_LIMIT
    /\ \E id \in Drawn : JobOf(id) = None
    /\ \A i \in 1..Len(JOBS) : JOBS[i].created_ts > 0

\* C10: a call of _update_job on a record that is terminal leaves the
\* record as it was before the call.
C10_UpdateOnTerminalIsNoOp ==
    [][\A w \in Workers :
        (/\ worker[w].pc = "apply"
         /\ worker'[w].pc # "apply"
         /\ worker[w].found # None
         /\ worker[w].found[1].status \in Terminal)
        => JobOfNext(worker[w].job_id) = worker[w].found]_vars

\* C11: a call of _update_job for an id that is not in the registry changes
\* no record, inserts nothing and lets the worker go on, and every later
\* poll of that id finds no record.
C11_UnknownUpdateIsNotFound ==
    /\ [][\A w \in Workers :
            (worker[w].pc = "update" /\ worker'[w].pc = "apply"
                /\ worker'[w].found = None)
            => JOBS' = JOBS]_vars
    /\ [][\A w \in Workers :
            (worker[w].pc = "apply" /\ worker'[w].pc # "apply"
                /\ worker[w].found = None)
            => (JOBS' = JOBS /\ worker'[w].pc \in {"exec", "done"})]_vars
    /\ [](\A w \in Workers :
            (worker[w].missed /\ req.pc = "polled"
                /\ req.poll_id = worker[w].job_id)
            => req.snap = None)

\* C12: the job a poll sends is the record as it was when _get_job copied
\* it, whatever the workers did to the record since; a poll of an unknown
\* id is answered 404; and no step of a poll changes the registry.
C12_GetReturnsCopy ==
    /\ [][(req.pc = "reply" /\ req'.pc = "sent") =>
            /\ req.snap # None => (resp'.code = 200 /\ resp'.job = req.snap)
            /\ req.snap = None => (resp'.code = 404 /\ resp'.job = None)]_vars
    /\ [][(req.pc = "idle" /\ req'.pc = "polled") =>
            /\ req'.snap = JobOf(req'.poll_id)
            /\ JOBS' = JOBS]_vars
    /\ [][(req.pc \in {"polled", "reply"} /\ req'.pc \in {"reply", "sent"}
                /\ req'.pc # req.pc)
            => JOBS' = JOBS]_vars

\* a poll sent the record as it was running although the worker has made it
\* terminal since the copy was taken
C12_Witness ==
    /\ req.pc = "sent"
    /\ resp.kind = "job"
    /\ resp.job[1].status = "running"
    /\ JobOf(resp.job_id) # None
    /\ JobOf(resp.job_id)[1].status \in Terminal

\* C13: an id that is in the registry stays in it through every step of
\* every thread (poll, update, completion, any request) except the prune
\* inside a _create_job whose insertion made the registry larger than
\* JOB_LIMIT.
C13_RemovedOnlyByPrune ==
    [][\A id \in JobIds :
        (JobOf(id) # None /\ JobOfNext(id) = None)
        => (req.pc = "prune" /\ req'.pc = "spawn" /\ Len(JOBS) > JOB_LIMIT)]_vars

\* a poll was answered with a finished job that is still in the registry,
\* while another job has left it
C13_Witness ==
    /\ req.pc = "sent"
    /\ resp.kind = "job"
    /\ resp.job[1].status \in Terminal
    /\ JobOf(resp.job_id) = resp.job
    /\ \E id \in Drawn : JobOf(id) = None

\* how the command of worker w ended: "" before it ended
EndKind(w) == IF worker[w].outcome = None THEN "" ELSE worker[w].outcome[1].kind

\* C14: when the command ran to completion, the terminal update leaves the
\* record with that exit code and with status success if the code is 0 and
\* error otherwise; and a record that is success has exit_code 0.
C14_StatusFollowsExitCode ==
    /\ [][\A w \in Workers :
            (worker[w].pc = "apply" /\ worker'[w].pc = "done"
                /\ EndKind(w) = "completed" /\ worker[w].found # None)
            => LET job == JobOfNext(worker[w].job_id)[1]
                   rc == worker[w].outcome[1].returncode
               IN  /\ job.exit_code = Some(rc)
                   /\ job.status = "success" <=> rc = 0
                   /\ job.status = "error" <=> rc # 0]_vars
    /\ [](JOBS_LOCK = Free =>
            \A i \in 1..Len(JOBS) :
                JOBS[i].status = "success" => JOBS[i].exit_code = Some(0))

\* a command exited with code 1 and its job is error with exit_code 1
C14_Witness ==
    \E w \in Workers :
        /\ worker[w].pc = "done"
        /\ EndKind(w) = "completed"
        /\ worker[w].outcome[1].returncode = 1
        /\ JobOf(issued[w]) # None
        /\ JobOf(issued[w])[1].status = "error"
        /\ JobOf(issued[w])[1].exit_code = Some(1)

\* C15: after the command timed out and the worker ended, the record (if it
\* is still in the registry) is timeout with exit_code None, the timeout
\* message as error and the partial output, ANSI-stripped, as output.
C15_TimeoutRecorded ==
    \A w \in Workers :
        (/\ worker[w].pc \in {"done", "crashed"}
         /\ EndKind(w) = "timeout"
         /\ JobOf(issued[w]) # None)
        => LET job == JobOf(issued[w])[1]
               o == worker[w].outcome[1]
           IN  /\ job.status = "timeout"
               /\ job.exit_code = None
               /\ job.error = Some("Command timed out")
               /\ job.output = Strip(StripAnsi(Combine(o.stdout, o.stderr)))

\* C16: when subprocess.run raised something other than a timeout, the
\* worker does not end by an exception, and once it has ended the record is
\* error with exit_code None and an error message.
C16_InvocationFailureRecorded ==
    \A w \in Workers :
        EndKind(w) = "raised" =>
            /\ worker[w].pc # "crashed"
            /\ (worker[w].pc = "done" /\ JobOf(issued[w]) # None)
                => LET job == JobOf(issued[w])[1] IN
                   /\ job.status = "error"
                   /\ job.exit_code = None
                   /\ job.error # None

\* the invocation raised, the worker returned and the record is error
C16_Witness ==
    \E w \in Workers :
        /\ worker[w].pc = "done"
        /\ EndKind(w) = "raised"
        /\ JobOf(issued[w]) # None
        /\ JobOf(issued[w])[1].status = "error"
        /\ JobOf(issued[w])[1].started_at # None

\* C17: the output of every record is at most OUTPUT_CAP characters long.
C17_OutputWithinCap ==
    \A i \in 1..Len(JOBS) : Len(JOBS[i].output) <= OUTPUT_CAP

\* C18: a worker calls subprocess.run at most once: after its terminal
\* update it returns, and a worker that has ended stays ended.
C18_CommandRunsOnce ==
    /\ [](\A w \in Workers : worker[w].runs <= 1)
    /\ [][\A w \in Workers :
            (worker[w].pc = "apply" /\ worker[w].stamp = "finished_at"
                /\ worker'[w].pc # "apply")
            => worker'[w].pc = "done"]_vars
    /\ [][\A w \in Workers :
            worker[w].pc \in {"done", "crashed"} => worker'[w] = worker[w]]_vars

\* a command exited with code 1, its worker has returned after one call and
\* the request thread has served another request since
C18_Witness ==
    /\ req.pc = "sent"
    /\ resp.kind = "job"
    /\ \E w \in Workers :
          /\ worker[w].pc = "done"
          /\ worker[w].runs = 1
          /\ EndKind(w) = "completed"
          /\ worker[w].outcome[1].returncode # 0

\* C19: once a job-creation request is accepted and its record inserted,
\* the response "queued" with the job id is sent, whether or not the command
\* ever finishes.
C19_ResponseNotWaiting ==
    (req.pc = "prune") ~> (resp.kind = "queued" /\ resp.job_id = issued[Len(issued)])

\* the response was sent while the command is running
C19_Witness ==
    /\ req.pc = "sent"
    /\ resp.kind = "queued"
    /\ worker[1].pc = "exec"
    /\ JobOf(resp.job_id) # None
    /\ JobOf(resp.job_id)[1].status = "running"

\* C20: a poll of the id of an accepted job finds the record; it is queued
\* or running as long as the command has not ended, and once the command
\* has exited with code 0 and the worker has returned it is success with an
\* exit code.
C20_PollAfterCreate ==
    \A w \in Workers :
        (req.pc = "polled" /\ w <= Len(issued) /\ req.poll_id = issued[w]) =>
            /\ req.snap # None
            /\ EndKind(w) = "" => req.snap[1].status \in {"queued", "running"}
            /\ (/\ worker[w].pc = "done"
                /\ EndKind(w) = "completed"
                /\ worker[w].outcome[1].returncode = 0)
               => (req.snap[1].status = "success" /\ req.snap[1].exit_code # None)

\* a job of scope instance for openalgo7 is polled after its command exited
\* with code 0
C20_Witness ==
    /\ req.pc = "polled"
    /\ req.snap # None
    /\ req.snap[1].params = [scope |-> Str_instance, instance |-> Some(Str_openalgo7)]
    /\ req.snap[1].status = "success"
    /\ worker[1].pc = "done"

\* name is the prefix openalgo and then a non-empty run of digits (0-9 and
\* what else str.isdigit() takes for a digit)
WellFormed(name) ==
    /\ Len(name) > Len(Str_openalgo)
    /\ \A k \in 1..Len(name) :
          IF k <= Len(Str_openalgo) THEN name[k] = Str_openalgo[k]
          ELSE name[k] \in Digits \cup OtherDigits

\* the parts of text that have only whitespace before and after them
Cuts(text) ==
    {c \in (1..(Len(text) + 1)) \X (0..Len(text)) :
        \A k \in (1..(c[1] - 1)) \cup ((c[2] + 1)..Len(text)) : text[k] \in Whitespace}

\* the name a candidate holds between whitespace, None when it holds none
NameIn(candidate) ==
    IF candidate = None THEN None
    ELSE LET text == candidate[1]
             names == {c \in Cuts(text) : WellFormed(SubSeq(text, c[1], c[2]))}
         IN  IF names = {} THEN None
             ELSE LET c == CHOOSE c \in names : TRUE IN Some(SubSeq(text, c[1], c[2]))

C22_FirstValidSourceWins ==
    result.fn = "_resolve_monitor_instance" =>
        LET header == result.arg[1]
            query == result.arg[2]
            link == result.arg[3]
        IN  /\ result.value = IF NameIn(header) # None THEN NameIn(header)
                              ELSE IF NameIn(query) # None THEN NameIn(query)
                              ELSE NameIn(link)
            /\ result.value = None \/ WellFormed(result.value[1])

\* the header was not a name and was passed over, and the name of the query
\* won over another name from the host
C22_Witness ==
    /\ result.fn = "_resolve_monitor_instance"
    /\ result.arg = <<Some(Str_passwd), Some(Str_padded), Some(Str_openalgo \o <<"1", "2">>)>>
    /\ result.value = Some(Str_openalgo7)

\* C23: a monitor request none of whose sources holds a name is answered
\* with status 400 and the handler puts no instance name into a command, a
\* file path or a database path; nothing else changes either.
C23_NoInstanceNoAction ==
    [][(/\ req.pc = "idle"
        /\ resp'.given # <<>>
        /\ \A i \in 1..3 : NameIn(resp'.given[i]) = None)
       => /\ resp'.code = 400
          /\ resp'.used = None
          /\ UNCHANGED <<JOBS, JOBS_LOCK, worker, issued>>]_vars

\* a request for a restart with a path in the query and nothing else was
\* answered with 400
C23_Witness ==
    /\ req.pc = "sent"
    /\ resp.given = <<None, Some(Str_passwd), None>>
    /\ resp.code = 400
    /\ resp.used = None

\* the domain value of a .env file: what follows DOMAIN= in the first line
\* that starts with it, without the whitespace and then the quotes around
\* it; None when no line starts with DOMAIN=
DomainValue(lines) ==
    LET at == {i \in 1..Len(lines) : StartsWith(lines[i], Str_DOMAIN)} IN
    IF at = {} THEN None
    ELSE LET first == CHOOSE i \in at : \A k \in at : i <= k
             line == lines[first]
         IN  Some(StripOf(Strip(SubSeq(line, Len(Str_DOMAIN) + 1, Len(line))), Quotes))

\* name is openalgo- and then the domain with "-" for every "."
UnitOfDomain(name, domain) ==
    LET k == Len(Str_openalgo) + 1 IN
    /\ Len(name) = k + Len(domain)
    /\ SubSeq(name, 1, k) = Str_openalgo \o <<"-">>
    /\ \A i \in 1..Len(domain) :
          name[k + i] = IF domain[i] = "." THEN "-" ELSE domain[i]

\* C24: a call of _service_name that finds no .env file, or one it can
\* read, returns the unit name of the file as it is at that call: openalgo-
\* and the domain with "-" for every "." when the file has a domain value
\* that is not empty, the instance name otherwise; what an earlier call
\* returned for another content of the file has no part in it.
C24_ServiceNameFromFileAtCall ==
    (/\ result.fn = "_service_name"
     /\ ~result.arg[2].exists \/ result.arg[2].readable)
    => LET instance == result.arg[1]
           env == result.arg[2]
           domain == IF env.exists THEN DomainValue(env.lines) ELSE None
       IN  /\ ~result.raised
           /\ IF domain # None /\ domain[1] # <<>>
              THEN UnitOfDomain(result.value, domain[1])
              ELSE result.value = instance

\* the domain was a.b at one call and x.y.z at the next call for the same
\* instance, and the second call returned openalgo-x-y-z
C24_Witness ==
    /\ result.fn = "_service_name"
    /\ result.arg[2].lines = <<Line_port, Line_quoted>>
    /\ result.prior = Some(Str_openalgo \o <<"-", "a", "-", "b">>)
    /\ result.value = Str_openalgo \o <<"-", "x", "-", "y", "-", "z">>

\* C25: a call of _service_name that finds a .env file it cannot read
\* returns the instance name and raises nothing.
C25_UnreadableFileFallsBack ==
    (/\ result.fn = "_service_name"
     /\ result.arg[2].exists
     /\ ~result.arg[2].readable)
    => /\ ~result.raised
       /\ result.value = result.arg[1]

\* the row a call of _read_auth_status read, and what the call returned
ReadRow == result.fn = "_read_auth_status" /\ ~result.raised
           /\ result.arg[1] \in {"candidate", "scanned"} /\ result.arg[2].state = "row"

\* C26: for every row (revoked 0 or 1; credential, feed credential, broker
\* and name each blank or not) the reader gives the one classification of
\* the priority order: not set up exactly when the name is blank; else,
\* when revoked, invalid token if credential, feed and broker are all
\* there and token revoked if not; else invalid token when the broker, the
\* credential or the feed is blank; authenticated exactly when nothing is
\* blank and the row is not revoked.
C26_ClassificationByPriority ==
    ReadRow =>
        LET row == result.arg[2].row
            answer == result.value
            no_name == Blank(row.name)
            revoked == row.is_revoked = 1
            some_blank == Blank(row.auth) \/ Blank(row.feed_token) \/ Blank(row.broker)
        IN  /\ answer.reason \in {"Not Authenticated - User not Setup",
                                  "Not Authenticated - Invalid Token",
                                  "Not Authenticated - User Token Revoked",
                                  "User Authenticated"}
            /\ answer.reason = "Not Authenticated - User not Setup" <=> no_name
            /\ answer.reason = "Not Authenticated - User Token Revoked"
                  <=> ~no_name /\ revoked /\ some_blank
            /\ answer.reason = "Not Authenticated - Invalid Token"
                  <=> ~no_name /\ (revoked <=> ~some_blank)
            /\ answer.reason = "User Authenticated"
                  <=> ~no_name /\ ~revoked /\ ~some_blank
            /\ answer.authenticated <=> answer.reason = "User Authenticated"

\* a revoked row with a name and a blank feed credential was read as token
\* revoked
C26_Witness ==
    /\ ReadRow
    /\ result.arg[2].row =
          [is_revoked |-> 1, auth |-> Some(<<"x">>), feed_token |-> Some(<<" ">>),
           broker |-> Some(<<"z">>), name |-> Some(<<"B", "o", "b">>)]
    /\ result.value.reason = "Not Authenticated - User Token Revoked"

\* C27: whenever the reader read a row, it returns the broker and the name
\* of that row as they are, whatever the classification.
C27_BrokerAndNameReturned ==
    ReadRow => /\ result.value.broker = result.arg[2].row.broker
               /\ result.value.name = result.arg[2].row.name

\* revoked=1, credential x, feed y, broker z, name Bob: invalid token, with
\* broker z and name Bob
C27_Witness ==
    /\ ReadRow
    /\ result.arg[2].row =
          [is_revoked |-> 1, auth |-> Some(<<"x">>), feed_token |-> Some(<<"y">>),
           broker |-> Some(<<"z">>), name |-> Some(<<"B", "o", "b">>)]
    /\ ~result.value.authenticated
    /\ result.value.reason = "Not Authenticated - Invalid Token"
    /\ result.value.broker = Some(<<"z">>)
    /\ result.value.name = Some(<<"B", "o", "b">>)

\* C28: a call of _read_auth_status never raises; when no database is found,
\* the directory cannot be listed, the connection or the query fails or the
\* table is empty, it returns not authenticated with a reason.
C28_AuthReaderNeverRaises ==
    result.fn = "_read_auth_status" =>
        /\ ~result.raised
        /\ (result.arg[1] \notin {"candidate", "scanned"} \/ result.arg[2].state # "row")
              => ~result.value.authenticated /\ result.value.reason # ""

\* C29: for every now, the start of the window is 03:00:00 of the day of
\* now, or of the day before when now is earlier than 03:00:00 of its day,
\* and start <= now < start + 24 h.
C29_WindowContainsNow ==
    result.fn = "_ist_window_start" =>
        LET now == result.arg[1]
            start == result.value.window_start
            today == (now \div Day) * Day
        IN  /\ start = IF now - today < CutoverHour * Hour
                       THEN today - Day + CutoverHour * Hour
                       ELSE today + CutoverHour * Hour
            /\ start <= now
            /\ now < start + Day
            /\ result.value.window_end = start + Day

\* now was exactly 03:00 of the second day and the window started then
C29_Witness ==
    /\ result.fn = "_ist_window_start"
    /\ result.arg[1] = Day + CutoverHour * Hour
    /\ result.value.window_start = result.arg[1]

\* a call of _get_master_contract_status that read the rows of the table
ReadTable == result.fn = "_get_master_contract_status" /\ ~result.raised
             /\ result.arg[1] \in {"candidate", "scanned"} /\ result.arg[2].state = "rows"

RowsInWindow ==
    LET rows == result.arg[2].rows
        start == IstWindowStart(IstNow(result.arg[3]))
    IN  {i \in 1..Len(rows) :
            /\ rows[i].is_ready = 1
            /\ rows[i].last_updated.kind = "naive"
            /\ start <= rows[i].last_updated.at
            /\ rows[i].last_updated.at < start + Day}

\* C31: whatever rows the table holds, in whatever order, the instance is
\* reported ready exactly when the table has a row with is_ready = 1 whose
\* timestamp lies in the window [start, start + 24 h).
C31_ReadyIffRecordInWindow ==
    ReadTable => (result.value.is_ready <=> RowsInWindow # {})

\* the rows of the table with is_ready = 1 whose timestamp cannot be parsed
UnparsedRows ==
    LET rows == result.arg[2].rows IN
    {i \in 1..Len(rows) :
        rows[i].is_ready = 1 /\ ParseDbDatetime(rows[i].last_updated) = None}

\* C32: a ready row whose timestamp cannot be parsed is passed over: it
\* does not make the instance ready, and when every other ready row of the
\* table lies in the window, and there is one, the instance is reported
\* ready however many unparsable rows there are.
C32_UnparsedRowsSkipped ==
    ReadTable =>
        LET rows == result.arg[2].rows
            ready == {i \in 1..Len(rows) : rows[i].is_ready = 1}
        IN  /\ ready \subseteq UnparsedRows => ~result.value.is_ready
            /\ (ready \subseteq UnparsedRows \cup RowsInWindow /\ RowsInWindow # {})
                  => result.value.is_ready

FieldsAgree(job) ==
    /\ job.started_at = None <=> job.status = "queued"
    /\ job.finished_at = None <=> job.status \in {"queued", "running"}
    /\ job.exit_code # None => job.status \in {"success", "error"}
    /\ job.error # None => job.status \in {"timeout", "error"}

\* C34: whenever the registry can be read (JOBS_LOCK is free), every record
\* in JOBS has started_at None exactly when it is queued, finished_at None
\* exactly when it is queued or running, an exit_code only when it is
\* success or error, and an error message only when it is timeout or error.
C34_FieldsAgreeWithStatus ==
    JOBS_LOCK = Free => \A i \in 1..Len(JOBS) : FieldsAgree(JOBS[i])

\* the fixed words the handler of an action passes to its script
FixedTokens(action) ==
    IF action = "health-check" THEN {Str_all, Str_system} ELSE {Str_updateall}

\* arg is one word for the script of action: a fixed token or a name
SafeArg(action, arg) ==
    /\ arg # None
    /\ arg[1] \in FixedTokens(action) \/ WellFormed(arg[1])

\* C35: for every accepted health-check or update request, the argument the
\* handler puts after the script path, and the one the job's thread holds
\* until its command has run, is all or system (health-check), update-all
\* (update), or openalgo followed by digits; no other text of the request
\* body gets there.
C35_ScriptArgumentSafe ==
    /\ req.pc \in {"prune", "spawn", "respond"} => SafeArg(req.job[1].action, req.arg)
    /\ \A w \in Workers :
          worker[w].pc \in {"update", "apply", "exec"}
          => \E action \in Actions : SafeArg(action, worker[w].arg)

\* the request named the instance with blanks around it and the thread is
\* about to run the script with the bare name
C35_Witness ==
    \E w \in Workers :
        /\ worker[w].pc = "exec"
        /\ worker[w].arg = Some(Str_openalgo7)
        /\ JobOf(worker[w].job_id) # None
        /\ JobOf(worker[w].job_id)[1].params.scope = Str_instance

\* the row the reader finds in the files of a call's db directory
RowRead(files) == files[FileIndex(files, AuthDbFileIn(files)[1])].row

\* C36: once _invalidate_session has returned auth_updated true, every call
\* of _read_auth_status for the instance, whatever the row held before,
\* returns not authenticated, with User Token Revoked when the name of the
\* row is not blank and User not Setup when it is blank.
C36_RevokedAfterInvalidation ==
    (/\ scenario = "session"
     /\ result.fn = "_read_auth_status"
     /\ result.prior # None
     /\ result.prior[1].value.auth_updated)
    => /\ ~result.raised
       /\ ~result.value.authenticated
       /\ result.value.reason =
             IF Blank(RowRead(result.arg[1].auth).name)
             THEN "Not Authenticated - User not Setup"
             ELSE "Not Authenticated - User Token Revoked"

\* the rows whose time, as the evaluator reads it, is in the window that
\* starts at window_start
RECURSIVE OutsideWindow(_, _)
OutsideWindow(rows, window_start) ==
    IF rows = <<>> THEN <<>>
    ELSE (IF InWindow(ParseDbDatetime(Head(rows).last_updated),
                      window_start, window_start + Day)
          THEN <<>> ELSE <<Head(rows)>>)
         \o OutsideWindow(Tail(rows), window_start)

\* C37: a call of _invalidate_session that deleted from the status table
\* without error leaves in the table exactly the rows whose time is not in
\* the window [start, start + 24h) of its clock reading, and every later
\* call of _get_master_contract_status in that window returns not ready.
C37_NotReadyAfterInvalidation ==
    /\ (/\ result.fn = "_invalidate_session"
        /\ ~result.value.master_error)
       => db_dir.master =
             Some(OutsideWindow(result.arg[1].master[1],
                                IstWindowStart(IstNow(result.arg[2]))))
    /\ (/\ scenario = "session"
        /\ result.fn = "_get_master_contract_status"
        /\ result.prior # None
        /\ ~result.prior[1].value.master_error
        /\ IstWindowStart(IstNow(result.arg[2]))
              = IstWindowStart(IstNow(result.prior[1].arg[2])))
       => (~result.raised /\ ~result.value.is_ready)

\* C38: the report of _get_instance_health has session_valid true only
\* when _read_auth_status returned authenticated for the instance; when the
\* reader returns a failure or raises, session_valid is false.
C38_ValidOnlyWhenAuthenticated ==
    result.fn = "_get_instance_health"
    => LET auth == ReadAuthStatus(result.arg[1], result.arg[2]) IN
       result.value.session_valid => (~auth.raised /\ auth.value.authenticated)

\* the names the listing of a call gave, none when the listing failed
Listed(ls) ==
    IF ls.kind = "completed"
    THEN {Strip(ls.stdout[i]) : i \in 1..Len(ls.stdout)} \ {<<>>}
    ELSE {}

\* C39: trigger_restart_instance, stop_instance and start_instance run (or
\* start a thread for) a systemctl command only when the name is one of
\* the names get_instances listed; for a name that is not listed, and when
\* the listing failed, they return False and run no command.
C39_CommandOnlyForListed ==
    (scenario = "enhanced" /\ result.fn # "")
    => /\ result.value.command # None => result.arg[1] \in Listed(result.arg[2])
       /\ result.arg[1] \notin Listed(result.arg[2])
             => (~result.value.ok /\ result.value.command = None)

====
